---- MODULE Spec2Model ----
\* Quick Export Collection (src/__init__.py): the export command, the
\* propagation of the `exclude` flag over the layer-collection tree, the
\* search of the topmost collections to join, and the selection handed to
\* the exporter.
EXTENDS Integers, Sequences, FiniteSets, TLC

VARIABLES
    parent,       \* the collection tree: parent[c] of every non-root collection c
    host,         \* host facts the command reads: [recursive_exclude, is_saved, dirs, odd_names, added_exporters]
    colls,        \* bpy.data.collections: c -> [hide_select, hide_viewport]
    objects,      \* bpy.data.objects: o -> [owner, type, hide_select, hide_viewport]
    view_layers,  \* scene.view_layers: id -> [exclude, saved, mark, log, selected]
    window,       \* context.window.view_layer: the id of the active view layer
    texts,        \* bpy.data.texts[CONFIG_FILE_NAME]
    pc,           \* the position of the command
    frame,        \* the locals of the running call
    trace         \* what the caller observed: outcome, reports, cleanup steps, exports,
                  \* the config text before the run, the names given a first run

vars == <<parent, host, colls, objects, view_layers, window, texts, pc, frame, trace>>

\* ---------------------------------------------------------------- bounds

\* Collections (the scene collection included) of the trees given to
\* find_topmost_collections.
PlanNodes == 5
\* Collections of the trees given to set_excluded_collections alone.
PropNodes == 4
\* Collections of the scenes the export command runs on.
ExecNodes == 3
\* Objects of the scenes the export command runs on.
NumLeaves == 5
\* Properties in the lists given to get_exporter_args_from_config alone.
MaxProps == 3

\* ------------------------------------------------------------- the tree

\* The scene collection (context.scene.collection).
Root == 0

\* Every tree over n collections: collection c > 0 hangs under a collection
\* created before it.
Trees(n) == { p \in [1..(n - 1) -> 0..(n - 1)] : \A c \in 1..(n - 1) : p[c] < c }

Nodes == {Root} \cup DOMAIN parent

\* collection.name: collection names are unique, so the name of a collection
\* is a token of its own, not the collection.
Name(c) == <<"name", c>>

\* A section name of the config file that no collection carries.
GhostName == <<"ghost", 0>>

AllNames == { Name(c) : c \in Nodes } \cup {GhostName}

\* collection.children / layer_collection.children, in order.
Children(c) == SelectSeq([i \in 1..Len(parent) |-> i], LAMBDA k : parent[k] = c)

RECURSIVE IsAncestor(_, _)
\* a is a proper ancestor of d.
IsAncestor(a, d) ==
    IF d = Root THEN FALSE
    ELSE parent[d] = a \/ IsAncestor(a, parent[d])

InSubtree(d, t) == d = t \/ IsAncestor(t, d)

\* collection.children_recursive
ChildrenRecursive(c) == { d \in Nodes : IsAncestor(c, d) }

\* The collections strictly between t and d, for d a proper descendant of t.
StrictlyBetween(t, d) == { m \in Nodes : IsAncestor(t, m) /\ IsAncestor(m, d) }

\* ------------------------------------------- LayerCollection.exclude (host)

\* A view layer's state per collection: the exclude flag, the value the host
\* saved for it, the branch of set_excluded_collections that last assigned it
\* and the assignments made, in order.
NewLayer(ns) ==
    [ exclude  |-> [c \in ns |-> FALSE],
      saved    |-> [c \in ns |-> FALSE],
      mark     |-> [c \in ns |-> "unset"],
      log      |-> <<>>,
      selected |-> {} ]

\* `lc.exclude = v` on a host without side effects.
PlainAssign(lay, c, v) == [lay EXCEPT !.exclude[c] = v]

\* `lc.exclude = v` as the docstring of set_excluded_collections describes
\* it: True forces every descendant to True after saving its value, False
\* restores every descendant's saved value, also when v is the value c has.
RecursiveAssign(lay, c, v) ==
    LET below == { d \in DOMAIN lay.exclude : IsAncestor(c, d) }
    IN  IF v
        THEN [lay EXCEPT
                !.saved   = [d \in DOMAIN lay.saved |->
                                IF d \in below THEN lay.exclude[d] ELSE lay.saved[d]],
                !.exclude = [d \in DOMAIN lay.exclude |->
                                IF d \in below \/ d = c THEN TRUE ELSE lay.exclude[d]]]
        ELSE [lay EXCEPT
                !.exclude = [d \in DOMAIN lay.exclude |->
                                IF d \in below THEN lay.saved[d]
                                ELSE IF d = c THEN FALSE ELSE lay.exclude[d]]]

HostAssign(lay, c, v) ==
    IF host.recursive_exclude THEN RecursiveAssign(lay, c, v) ELSE PlainAssign(lay, c, v)

\* One `clc.exclude = v` of set_excluded_collections, taken in branch `m`.
AssignExclude(lay, c, v, m) ==
    LET done == HostAssign(lay, c, v)
    IN  [done EXCEPT !.mark[c] = m, !.log = Append(lay.log, <<c, v>>)]

\* ----------------------------------------------- set_excluded_collections

RECURSIVE stale_excluded_collections(_, _, _, _, _, _)
RECURSIVE stale_excluded_children(_, _, _, _, _, _, _)
\* A variant that recurses before it assigns and takes within_nonexportable
\* from the exclude flag the parent still has.
stale_excluded_collections(lay, lc, names, cte, within, wne) ==
    stale_excluded_children(lay, Children(lc), lc, names, cte,
                            (lc = cte) \/ within, wne)

stale_excluded_children(lay, kids, lc, names, cte, within, wne) ==
    IF kids = <<>> THEN lay
    ELSE
        LET clc == Head(kids)
            next ==
                IF clc = cte
                THEN AssignExclude(
                        stale_excluded_collections(lay, clc, names, cte, TRUE, FALSE),
                        clc, FALSE, "allowed")
                ELSE IF within
                THEN LET tmp_wne == (lc # Root /\ lc # cte /\ lay.exclude[lc])
                                        \/ Name(clc) \in names
                     IN  AssignExclude(
                            stale_excluded_collections(lay, clc, names, cte, TRUE, tmp_wne),
                            clc, tmp_wne,
                            IF tmp_wne THEN "disallowed" ELSE "allowed")
                ELSE AssignExclude(
                        stale_excluded_collections(lay, clc, names, cte, FALSE, FALSE),
                        clc, TRUE, "outside")
        IN  stale_excluded_children(next, Tail(kids), lc, names, cte, within, wne)

RECURSIVE sticky_excluded_collections(_, _, _, _, _, _)
RECURSIVE sticky_excluded_children(_, _, _, _, _, _, _)
\* A variant that tests only the child's own name and forgets that an
\* ancestor inside the target is not exportable.
sticky_excluded_collections(lay, lc, names, cte, within, wne) ==
    sticky_excluded_children(lay, Children(lc), lc, names, cte,
                             (lc = cte) \/ within, wne)

sticky_excluded_children(lay, kids, lc, names, cte, within, wne) ==
    IF kids = <<>> THEN lay
    ELSE
        LET clc == Head(kids)
            next ==
                IF clc = cte
                THEN sticky_excluded_collections(
                        AssignExclude(lay, clc, FALSE, "allowed"),
                        clc, names, cte, TRUE, FALSE)
                ELSE IF within
                THEN LET tmp_wne == Name(clc) \in names
                     IN  sticky_excluded_collections(
                            AssignExclude(lay, clc, tmp_wne,
                                          IF tmp_wne THEN "disallowed" ELSE "allowed"),
                            clc, names, cte, TRUE, tmp_wne)
                ELSE sticky_excluded_collections(
                        AssignExclude(lay, clc, TRUE, "outside"),
                        clc, names, cte, FALSE, FALSE)
        IN  sticky_excluded_children(next, Tail(kids), lc, names, cte, within, wne)

RECURSIVE lax_excluded_collections(_, _, _, _, _, _)
RECURSIVE lax_excluded_children(_, _, _, _, _, _, _)
\* A variant that leaves the collections outside the target as they are.
lax_excluded_collections(lay, lc, names, cte, within, wne) ==
    lax_excluded_children(lay, Children(lc), lc, names, cte,
                          (lc = cte) \/ within, wne)

lax_excluded_children(lay, kids, lc, names, cte, within, wne) ==
    IF kids = <<>> THEN lay
    ELSE
        LET clc == Head(kids)
            next ==
                IF clc = cte
                THEN lax_excluded_collections(
                        AssignExclude(lay, clc, FALSE, "allowed"),
                        clc, names, cte, TRUE, FALSE)
                ELSE IF within
                THEN LET tmp_wne == wne \/ Name(clc) \in names
                     IN  lax_excluded_collections(
                            AssignExclude(lay, clc, tmp_wne,
                                          IF tmp_wne THEN "disallowed" ELSE "allowed"),
                            clc, names, cte, TRUE, tmp_wne)
                ELSE lax_excluded_collections(lay, clc, names, cte, FALSE, FALSE)
        IN  lax_excluded_children(next, Tail(kids), lc, names, cte, within, wne)

RECURSIVE inherited_excluded_collections(_, _, _, _, _, _)
RECURSIVE inherited_excluded_children(_, _, _, _, _, _, _)
\* A variant that takes within_nonexportable along from the collections above
\* the target and gives it to the target.
inherited_excluded_collections(lay, lc, names, cte, within, wne) ==
    inherited_excluded_children(lay, Children(lc), lc, names, cte,
                                (lc = cte) \/ within, wne)

inherited_excluded_children(lay, kids, lc, names, cte, within, wne) ==
    IF kids = <<>> THEN lay
    ELSE
        LET clc == Head(kids)
            next ==
                IF clc = cte
                THEN inherited_excluded_collections(
                        AssignExclude(lay, clc, wne,
                                      IF wne THEN "disallowed" ELSE "allowed"),
                        clc, names, cte, TRUE, wne)
                ELSE IF within
                THEN LET tmp_wne == wne \/ Name(clc) \in names
                     IN  inherited_excluded_collections(
                            AssignExclude(lay, clc, tmp_wne,
                                          IF tmp_wne THEN "disallowed" ELSE "allowed"),
                            clc, names, cte, TRUE, tmp_wne)
                ELSE inherited_excluded_collections(
                        AssignExclude(lay, clc, TRUE, "outside"),
                        clc, names, cte, FALSE, wne \/ Name(clc) \in names)
        IN  inherited_excluded_children(next, Tail(kids), lc, names, cte, within, wne)

RECURSIVE reliant_excluded_collections(_, _, _, _, _, _)
RECURSIVE reliant_excluded_children(_, _, _, _, _, _, _)
\* A variant that excludes a collection that is not exportable and leaves
\* the collections below it to the host.
reliant_excluded_collections(lay, lc, names, cte, within, wne) ==
    reliant_excluded_children(lay, Children(lc), lc, names, cte,
                              (lc = cte) \/ within, wne)

reliant_excluded_children(lay, kids, lc, names, cte, within, wne) ==
    IF kids = <<>> THEN lay
    ELSE
        LET clc == Head(kids)
            next ==
                IF clc = cte
                THEN reliant_excluded_collections(
                        AssignExclude(lay, clc, FALSE, "allowed"),
                        clc, names, cte, TRUE, FALSE)
                ELSE IF within
                THEN LET tmp_wne == wne \/ Name(clc) \in names
                     IN  IF tmp_wne
                         THEN AssignExclude(lay, clc, TRUE, "disallowed")
                         ELSE reliant_excluded_collections(
                                AssignExclude(lay, clc, FALSE, "allowed"),
                                clc, names, cte, TRUE, FALSE)
                ELSE reliant_excluded_collections(
                        AssignExclude(lay, clc, TRUE, "outside"),
                        clc, names, cte, FALSE, FALSE)
        IN  reliant_excluded_children(next, Tail(kids), lc, names, cte, within, wne)

RECURSIVE set_excluded_collections(_, _, _, _, _, _)
RECURSIVE set_excluded_children(_, _, _, _, _, _, _)
\* set_excluded_collections(lc, collection_names_not_exportable,
\* collection_to_export, within_collection_to_export, within_nonexportable)
\* on the view layer state `lay`; the result is the view layer state after it.
set_excluded_collections(lay, lc, names, cte, within, wne) ==
    set_excluded_children(lay, Children(lc), lc, names, cte,
                          (lc = cte) \/ within, wne)

\* The loop `for clc in lc.children` of set_excluded_collections.
set_excluded_children(lay, kids, lc, names, cte, within, wne) ==
    IF kids = <<>> THEN lay
    ELSE
        LET clc == Head(kids)
            next ==
                IF clc = cte
                THEN set_excluded_collections(
                        AssignExclude(lay, clc, FALSE, "allowed"),
                        clc, names, cte, TRUE, FALSE)
                ELSE IF within
                THEN LET tmp_wne == wne \/ Name(clc) \in names
                     IN  set_excluded_collections(
                            AssignExclude(lay, clc, tmp_wne,
                                          IF tmp_wne THEN "disallowed" ELSE "allowed"),
                            clc, names, cte, TRUE, tmp_wne)
                ELSE set_excluded_collections(
                        AssignExclude(lay, clc, TRUE, "outside"),
                        clc, names, cte, FALSE, FALSE)
        IN  set_excluded_children(next, Tail(kids), lc, names, cte, within, wne)

\* ----------------------------------------------- find_topmost_collections

RECURSIVE deep_topmost_collections(_, _)
RECURSIVE deep_topmost_children(_, _)
\* A variant that reports a matching collection and goes on searching below it.
deep_topmost_collections(collection_names, collection) ==
    (IF Name(collection) \in collection_names THEN <<collection>> ELSE <<>>)
        \o deep_topmost_children(collection_names, Children(collection))

deep_topmost_children(collection_names, kids) ==
    IF kids = <<>> THEN <<>>
    ELSE deep_topmost_collections(collection_names, Head(kids))
            \o deep_topmost_children(collection_names, Tail(kids))

RECURSIVE first_topmost_collections(_, _)
RECURSIVE first_topmost_children(_, _)
\* A variant that stops at the first child holding a match.
first_topmost_collections(collection_names, collection) ==
    IF Name(collection) \in collection_names THEN <<collection>>
    ELSE first_topmost_children(collection_names, Children(collection))

first_topmost_children(collection_names, kids) ==
    IF kids = <<>> THEN <<>>
    ELSE LET found == first_topmost_collections(collection_names, Head(kids))
         IN  IF found # <<>> THEN found
             ELSE first_topmost_children(collection_names, Tail(kids))

RECURSIVE below_topmost_collections(_, _)
RECURSIVE below_topmost_children(_, _)
\* A variant that never tests the starting collection itself.
below_topmost_collections(collection_names, collection) ==
    below_topmost_children(collection_names, Children(collection))

below_topmost_children(collection_names, kids) ==
    IF kids = <<>> THEN <<>>
    ELSE (IF Name(Head(kids)) \in collection_names THEN <<Head(kids)>>
          ELSE below_topmost_children(collection_names, Children(Head(kids))))
            \o below_topmost_children(collection_names, Tail(kids))

RECURSIVE find_topmost_collections(_, _)
RECURSIVE find_topmost_children(_, _)
\* find_topmost_collections(collection_names, collection): the list returned.
find_topmost_collections(collection_names, collection) ==
    IF Name(collection) \in collection_names THEN <<collection>>
    ELSE find_topmost_children(collection_names, Children(collection))

\* The loop `for c in collection.children: list.extend(...)`.
find_topmost_children(collection_names, kids) ==
    IF kids = <<>> THEN <<>>
    ELSE find_topmost_collections(collection_names, Head(kids))
            \o find_topmost_children(collection_names, Tail(kids))

Range(s) == { s[i] : i \in DOMAIN s }

\* ------------------------------------------------------------------------
\* SpecPlanner: find_topmost_collections on every tree, starting collection
\* and list of names.

NoScene == <<>>

InitPlanner ==
    /\ parent \in Trees(PlanNodes)
    /\ host = [recursive_exclude |-> TRUE, is_saved |-> TRUE, dirs |-> {"//"},
              odd_names |-> <<>>, added_exporters |-> {}]
    /\ colls = NoScene
    /\ objects = NoScene
    /\ view_layers = NoScene
    /\ window = 0
    /\ texts = "none"
    /\ pc = "call"
    /\ \E t \in Nodes, ns \in SUBSET AllNames :
          frame = [collection |-> t, collection_names |-> ns]
    /\ trace = [returned |-> <<>>]

\* The call of find_topmost_collections (execute, line 332).
PlanTopmost ==
    /\ pc = "call"
    /\ pc' = "returned"
    /\ trace' = [returned |->
                    find_topmost_collections(frame.collection_names, frame.collection)]
    /\ UNCHANGED <<parent, host, colls, objects, view_layers, window, texts, frame>>

NextPlanner == PlanTopmost

SpecPlanner == InitPlanner /\ [][NextPlanner]_vars

\* ------------------------------------------------------------------------
\* SpecPropagate: set_excluded_collections, twice in a row, on a view layer
\* with any flags, on both kinds of host.

PropSet == 0..(PropNodes - 1)

\* The saved values the host may hold when the command starts.
SavedChoices(ex) == { ex, [c \in DOMAIN ex |-> FALSE], [c \in DOMAIN ex |-> ~ex[c]] }

InitPropagate ==
    /\ parent \in Trees(PropNodes)
    /\ host \in [recursive_exclude : BOOLEAN, is_saved : {TRUE}, dirs : {{"//"}},
                odd_names : {<<>>}, added_exporters : {{}}]
    /\ colls = NoScene
    /\ objects = NoScene
    /\ \E ex \in { f \in [PropSet -> BOOLEAN] : ~f[Root] } :
       \E sv \in SavedChoices(ex) :
          view_layers = [l \in {1} |-> [NewLayer(PropSet) EXCEPT !.exclude = ex, !.saved = sv]]
    /\ window = 1
    /\ texts = "none"
    /\ pc = "call"
    /\ \E t \in PropSet, ns \in SUBSET { Name(c) : c \in PropSet } :
          frame = [collection_to_export |-> t, collection_names_not_exportable |-> ns]
    /\ trace = [first |-> <<>>, start |-> view_layers[1]]

RunPropagation(lay) ==
    set_excluded_collections([lay EXCEPT !.log = <<>>], Root,
                             frame.collection_names_not_exportable,
                             frame.collection_to_export, FALSE, FALSE)

\* The call of set_excluded_collections on the view layer (execute, line 363).
Propagate ==
    /\ pc = "call"
    /\ pc' = "once"
    /\ view_layers' = [view_layers EXCEPT ![1] = RunPropagation(@)]
    /\ trace' = [trace EXCEPT !.first = view_layers'[1].exclude]
    /\ UNCHANGED <<parent, host, colls, objects, window, texts, frame>>

\* The same call again, with the same arguments.
PropagateAgain ==
    /\ pc = "once"
    /\ pc' = "twice"
    /\ view_layers' = [view_layers EXCEPT ![1] = RunPropagation(@)]
    /\ UNCHANGED <<parent, host, colls, objects, window, texts, frame, trace>>

NextPropagate == Propagate \/ PropagateAgain

SpecPropagate == InitPropagate /\ [][NextPropagate]_vars

\* ------------------------------------------------------------------------
\* The config file (configparser)

\* The strings getboolean accepts (configparser.BOOLEAN_STATES, after lower()).
TrueStrings == {"1", "yes", "true", "on", "True"}

FalseStrings == {"0", "no", "false", "off", "False"}

NoConfig == [default |-> <<>>, sections |-> <<>>]

\* The function d with key k set to v.
With(d, k, v) == [x \in DOMAIN d \cup {k} |-> IF x = k THEN v ELSE d[x]]

\* config.has_section(name): the DEFAULT section is not a section.
HasSection(config, name) == name \in DOMAIN config.sections

\* config.add_section(name)
AddSection(config, name) ==
    [config EXCEPT !.sections =
        [n \in DOMAIN config.sections \cup {name} |->
            IF n \in DOMAIN config.sections THEN config.sections[n] ELSE <<>>]]

\* Whether section `name` has a value for `key`, of its own or from DEFAULT.
HasOption(config, name, key) ==
    key \in DOMAIN config.sections[name] \/ key \in DOMAIN config.default

\* config.get(name, key, fallback=fallback)
GetOption(config, name, key, fallback) ==
    IF key \in DOMAIN config.sections[name] THEN config.sections[name][key]
    ELSE IF key \in DOMAIN config.default THEN config.default[key]
    ELSE fallback

\* config.getboolean(name, key, fallback=fallback): [ok, val]; ok is FALSE
\* when the value is no boolean string (ValueError).
GetBoolean(config, name, key, fallback) ==
    IF ~HasOption(config, name, key) THEN [ok |-> TRUE, val |-> fallback]
    ELSE LET v == GetOption(config, name, key, "")
         IN  IF v \in TrueStrings THEN [ok |-> TRUE, val |-> TRUE]
             ELSE IF v \in FalseStrings THEN [ok |-> TRUE, val |-> FALSE]
             ELSE [ok |-> FALSE, val |-> FALSE]

\* EXPORTERS, as the add-on ships it.
EXPORTERS == {"fbx"}

\* EXPORTERS with the entries added to the table for other exporters.
RegisteredExporters == EXPORTERS \cup host.added_exporters

\* The properties of the fbx export operator that the command reads or
\* skips: name -> kind (op.get_rna_type().properties).
OperatorProperties ==
    << [name |-> "rna_type",              kind |-> "Pointer"],
       [name |-> "filepath",              kind |-> "String"],
       [name |-> "check_existing",        kind |-> "Bool"],
       [name |-> "filter_glob",           kind |-> "String"],
       [name |-> "use_selection",         kind |-> "Bool"],
       [name |-> "use_visible",           kind |-> "Bool"],
       [name |-> "use_active_collection", kind |-> "Bool"],
       [name |-> "batch_mode",            kind |-> "Enum",
        options |-> {"OFF", "SCENE", "COLLECTION"}, is_enum_flag |-> FALSE] >>

\* The properties of an export operator that has no use_selection: the usd
\* exporter names the same concept selected_objects_only.
UsdOperatorProperties ==
    << [name |-> "rna_type",              kind |-> "Pointer"],
       [name |-> "filepath",              kind |-> "String"],
       [name |-> "check_existing",        kind |-> "Bool"],
       [name |-> "filter_glob",           kind |-> "String"],
       [name |-> "selected_objects_only", kind |-> "Bool"],
       [name |-> "visible_objects_only",  kind |-> "Bool"] >>

\* op.get_rna_type().properties of EXPORTERS[exporter_name]
PropertiesOfOperator(exporter_name) ==
    IF exporter_name = "fbx" THEN OperatorProperties ELSE UsdOperatorProperties

\* Whether the operator takes the keyword arguments: a keyword that is no
\* property of the operator makes the call raise TypeError.
AcceptsKeywords(exporter_name, settings) ==
    DOMAIN settings \subseteq
        { PropertiesOfOperator(exporter_name)[i].name :
            i \in DOMAIN PropertiesOfOperator(exporter_name) }

\* A variant that skips rna_type alone.
unfiltered_get_properties_for_op(props) ==
    SelectSeq(props, LAMBDA p : p.name # "rna_type")

\* get_properties_for_op(op): the (name, property) pairs left after the skip list.
get_properties_for_op(props) ==
    LET skip == {"rna_type", "filepath", "filter_glob", "use_active_collection",
                 "use_selection", "batch_mode"}
    IN  SelectSeq(props, LAMBDA p : p.name \notin skip)

\* EXPORTER_PROPERTIES[exporter_name]
EXPORTER_PROPERTIES(exporter_name) ==
    get_properties_for_op(PropertiesOfOperator(exporter_name))

\* `key in EXPORTER_PROPERTIES[exporter_name]`: the list holds (name,
\* property) pairs and a string equals none of them.
StringEqualsPair(key, pair) == FALSE

KeyInProperties(key, exporter_name) ==
    \E i \in DOMAIN EXPORTER_PROPERTIES(exporter_name) :
        StringEqualsPair(key, EXPORTER_PROPERTIES(exporter_name)[i])

\* The strings float() takes, with the number each stands for in tenths,
\* and those int() takes (getfloat and getint raise ValueError on the rest).
FloatStrings == {"2", "1.5"}

FloatOf(raw) == IF raw = "2" THEN 20 ELSE 15

IntStrings == {"2"}

IntOf(raw) == 2

\* set(val.split(',')): the tokens between the commas of the value.
SplitCommas(raw) ==
    IF raw = "MESH,EMPTY" THEN {"MESH", "EMPTY"}
    ELSE IF raw = "MESH,LAMP" THEN {"MESH", "LAMP"}
    ELSE {raw}

RECURSIVE exporter_args_loop(_, _, _, _, _)
\* The loop of get_exporter_args_from_config over the properties from
\* position i on: `args` so far and `val` as the previous turn left it
\* (`assigned`: whether val was assigned at all; reading it before raises
\* UnboundLocalError).
exporter_args_loop(props, i, config, name, st) ==
    IF i > Len(props) \/ ~st.ok THEN st
    ELSE
        LET prop == props[i]
            has  == HasOption(config, name, prop.name)
            raw  == GetOption(config, name, prop.name, "")
            step ==
                IF prop.kind = "Bool"
                THEN IF ~has THEN [st EXCEPT !.bound = FALSE]
                     ELSE IF raw \in TrueStrings THEN [st EXCEPT !.bound = TRUE, !.val = TRUE]
                     ELSE IF raw \in FalseStrings THEN [st EXCEPT !.bound = TRUE, !.val = FALSE]
                     ELSE [st EXCEPT !.ok = FALSE,
                                     !.report = <<"ERROR", "invalid boolean", prop.name>>]
                ELSE IF prop.kind = "String"
                THEN IF has THEN [st EXCEPT !.bound = TRUE, !.val = raw]
                     ELSE [st EXCEPT !.bound = FALSE]
                ELSE IF prop.kind = "Float"
                THEN IF ~has THEN [st EXCEPT !.bound = FALSE]
                     ELSE IF raw \in FloatStrings
                     THEN [st EXCEPT !.bound = TRUE, !.val = FloatOf(raw)]
                     ELSE [st EXCEPT !.ok = FALSE,
                                     !.report = <<"ERROR", "invalid number", prop.name>>]
                ELSE IF prop.kind = "Int"
                THEN IF ~has THEN [st EXCEPT !.bound = FALSE]
                     ELSE IF raw \in IntStrings
                     THEN [st EXCEPT !.bound = TRUE, !.val = IntOf(raw)]
                     ELSE [st EXCEPT !.ok = FALSE,
                                     !.report = <<"ERROR", "invalid integer", prop.name>>]
                ELSE IF prop.kind = "Enum"
                THEN IF ~has THEN [st EXCEPT !.bound = FALSE]
                     ELSE IF prop.is_enum_flag
                     THEN IF SplitCommas(raw) \subseteq prop.options
                          THEN [st EXCEPT !.bound = TRUE, !.val = SplitCommas(raw)]
                          ELSE [st EXCEPT !.ok = FALSE,
                                          !.report = <<"ERROR", "invalid enum set", prop.name>>]
                     ELSE IF raw \in prop.options
                          THEN [st EXCEPT !.bound = TRUE, !.val = raw]
                          ELSE [st EXCEPT !.ok = FALSE,
                                          !.report = <<"ERROR", "invalid enum", prop.name>>]
                ELSE IF st.assigned THEN st
                ELSE [st EXCEPT !.ok = FALSE, !.raised = TRUE]
            put == IF step.ok /\ step.bound
                   THEN [step EXCEPT !.assigned = TRUE, !.args =
                            [k \in DOMAIN step.args \cup {prop.name} |->
                                IF k = prop.name THEN step.val ELSE step.args[k]]]
                   ELSE IF step.ok THEN [step EXCEPT !.assigned = TRUE]
                   ELSE step
        IN  exporter_args_loop(props, i + 1, config, name, put)

\* The state of the loop before its first turn.
NoArgs ==
    [ok |-> TRUE, raised |-> FALSE, args |-> <<>>, assigned |-> FALSE,
     bound |-> FALSE, val |-> FALSE, report |-> <<>>]

\* get_exporter_args_from_config(exporter, config_section): [ok, args, report].
get_exporter_args_from_config(exporter, config, name) ==
    exporter_args_loop(EXPORTER_PROPERTIES(exporter), 1, config, name, NoArgs)

\* The names of the sections that resolve exportable to False, over every
\* section of the file (get_export_settings, lines 594-599).
TargetOnlyNotExportable(config) ==
    { n \in DOMAIN config.sections \cap {Name(frame.collection_to_export)} :
        ~GetBoolean(config, n, "exportable", TRUE).val }

NotExportableNames(config) ==
    { n \in DOMAIN config.sections : ~GetBoolean(config, n, "exportable", TRUE).val }

\* The names of the sections that resolve join_meshes to True (lines 601-602).
RequestingJoinNames(config) ==
    { n \in DOMAIN config.sections : GetBoolean(config, n, "join_meshes", FALSE).val }

\* collection_joined_mesh_names (line 603)
JoinedMeshNames(config) ==
    [n \in RequestingJoinNames(config) |-> GetOption(config, n, "joined_mesh_name", n)]

\* Whether a getboolean of the scan over the sections raises ValueError.
ScanRaises(config) ==
    \E n \in DOMAIN config.sections :
        \/ ~GetBoolean(config, n, "exportable", TRUE).ok
        \/ ~GetBoolean(config, n, "join_meshes", FALSE).ok

\* The collection names that hold a "%" and those that read "DEFAULT".
PercentNames ==
    { Name(c) : c \in { d \in DOMAIN host.odd_names : host.odd_names[d] = "percent" } }

ReservedNames ==
    { Name(c) : c \in { d \in DOMAIN host.odd_names : host.odd_names[d] = "reserved" } }

\* f"{collection_name}.{exporter_name}"
DefaultFilename(collection_name, exporter_name) == <<collection_name, exporter_name>>

\* Whether reading the value raises InterpolationSyntaxError: the parser
\* interpolates values, and a lone "%" is no interpolation.
BadInterpolation(filename) == filename[1] \in PercentNames

\* The text make_new_config_file writes.
make_new_config_file(collection_name, filename) ==
    [present |-> TRUE, blank |-> FALSE,
     config  |-> [default  |-> [k \in {"exporter", "directory"} |->
                                    IF k = "exporter" THEN "fbx" ELSE "//"],
                  sections |-> [n \in {collection_name} |->
                                    [k \in {"filename"} |-> filename]]]]

\* The text append_new_section_to_config_file leaves.
append_new_section_to_config_file(text, collection_name, filename) ==
    [text EXCEPT !.config.sections =
        [n \in DOMAIN text.config.sections \cup {collection_name} |->
            IF n = collection_name THEN [k \in {"filename"} |-> filename]
            ELSE text.config.sections[n]]]

\* export_dir[:2] == "//"
RelativeToBlend(export_dir) == export_dir \in {"//", "//missing"}

\* The replacement of "./", ".\" and "." by "//" (lines 552-561).
NormalizeDir(export_dir) ==
    IF export_dir \in {"./", ".\\", "."} THEN "//"
    ELSE IF export_dir = "./missing" THEN "//missing"
    ELSE export_dir

\* isdir(normpath(native_pathsep(abspath(export_dir))))
IsDir(export_dir) == export_dir \in host.dirs

NoSettings ==
    [result |-> "None", reports |-> <<>>, texts |-> texts,
     exporter_name |-> "", args |-> <<>>,
     not_exportable |-> {}, requesting_join |-> {}, joined_mesh_names |-> <<>>]

\* get_export_settings(context, collection_name): what it returns ("None",
\* "tuple" or "raise"), what it reports and the config text it leaves.
get_export_settings(collection_name) ==
    LET create_conf_file == ~texts.present \/ texts.blank
        parsed == IF create_conf_file THEN NoConfig ELSE texts.config
        append_section == ~HasSection(parsed, collection_name)
        config == IF append_section THEN AddSection(parsed, collection_name) ELSE parsed
        exportable == GetBoolean(config, collection_name, "exportable", TRUE)
        exporter_name == GetOption(config, collection_name, "exporter", "fbx")
        export_filename == GetOption(config, collection_name, "filename",
                                     DefaultFilename(collection_name, exporter_name))
        dir0 == GetOption(config, collection_name, "directory", "//")
        export_dir == NormalizeDir(dir0)
        warn == IF export_dir # dir0 THEN <<<<"WARNING", "directory prefix">>>> ELSE <<>>
        got == get_exporter_args_from_config(exporter_name, config, collection_name)
    IN  IF append_section /\ collection_name \in ReservedNames
        THEN [NoSettings EXCEPT !.result = "raise"]
        ELSE IF ~exportable.ok THEN [NoSettings EXCEPT !.result = "raise"]
        ELSE IF ~exportable.val
        THEN [NoSettings EXCEPT !.reports = <<<<"ERROR", "unexportable">>>>]
        ELSE IF exporter_name \notin RegisteredExporters
        THEN [NoSettings EXCEPT !.reports = <<<<"ERROR", "unknown exporter">>>>]
        ELSE IF HasOption(config, collection_name, "filename")
                    /\ BadInterpolation(export_filename)
        THEN [NoSettings EXCEPT !.result = "raise"]
        ELSE IF create_conf_file
        THEN [NoSettings EXCEPT
                !.texts = make_new_config_file(collection_name, export_filename),
                !.reports = warn \o <<<<"ERROR", "first export: file created">>>>]
        ELSE IF append_section
        THEN [NoSettings EXCEPT
                !.texts = append_new_section_to_config_file(texts, collection_name,
                                                            export_filename),
                !.reports = warn \o <<<<"ERROR", "first export: section created">>>>]
        ELSE IF ~host.is_saved /\ RelativeToBlend(export_dir)
        THEN [NoSettings EXCEPT !.reports = warn \o <<<<"ERROR", "blend file not saved">>>>]
        ELSE IF ~IsDir(export_dir)
        THEN [NoSettings EXCEPT !.reports = warn \o <<<<"ERROR", "no such directory">>>>]
        ELSE IF got.raised
        THEN [NoSettings EXCEPT !.result = "raise", !.reports = warn]
        ELSE IF ~got.ok
        THEN [NoSettings EXCEPT !.reports = warn \o <<got.report>>]
        ELSE IF ScanRaises(config)
        THEN [NoSettings EXCEPT !.result = "raise", !.reports = warn]
        ELSE [NoSettings EXCEPT
                !.result = "tuple",
                !.reports = warn,
                !.exporter_name = exporter_name,
                !.args = [k \in DOMAIN got.args \cup {"filepath"} |->
                            IF k = "filepath" THEN <<export_dir, export_filename>>
                            ELSE got.args[k]],
                !.not_exportable = NotExportableNames(config),
                !.requesting_join = RequestingJoinNames(config),
                !.joined_mesh_names = JoinedMeshNames(config)]

\* ------------------------------------------------------------------------
\* The scene: objects, visibility, selection

\* collection.all_objects: the objects of the collection and of those below it.
AllObjects(c) == { o \in DOMAIN objects : InSubtree(objects[o].owner, c) }

\* view_layer.objects: the objects whose own collection is not excluded in
\* the view layer (the scene collection cannot be excluded).
ViewLayerObjects(lay) ==
    { o \in DOMAIN objects :
        objects[o].owner = Root \/ ~lay.exclude[objects[o].owner] }

\* The collections an object's hide flags are inherited from.
OwnerChain(o) == { c \in Nodes \ {Root} : InSubtree(objects[o].owner, c) }

\* A variant that looks at the object's own hide_viewport flag alone.
own_flag_Visible(lay, o) ==
    /\ o \in ViewLayerObjects(lay)
    /\ ~objects[o].hide_viewport

\* o.visible_get() in view layer `lay`.
Visible(lay, o) ==
    /\ o \in ViewLayerObjects(lay)
    /\ ~objects[o].hide_viewport
    /\ \A c \in OwnerChain(o) : ~colls[c].hide_viewport

\* Whether o.select_set(True) selects o: hide_select and hide_viewport, of
\* the object or of a collection holding it, prevent it (lines 310-313).
Selectable(o) ==
    /\ ~objects[o].hide_select
    /\ ~objects[o].hide_viewport
    /\ \A c \in OwnerChain(o) : ~colls[c].hide_select /\ ~colls[c].hide_viewport

\* A set of integers in increasing order.
RECURSIVE Sorted(_)
Sorted(S) ==
    IF S = {} THEN <<>>
    ELSE LET m == CHOOSE x \in S : \A y \in S : x <= y
         IN  <<m>> \o Sorted(S \ {m})

Max(S) == CHOOSE x \in S : \A y \in S : y <= x

\* save_global_properties(context, collection_to_export): the objects of the
\* target, then the collections of the scene, that have a hide flag set.
save_global_properties(collection_to_export) ==
    LET os == { o \in AllObjects(collection_to_export) :
                    objects[o].hide_select \/ objects[o].hide_viewport }
        cs == { c \in ChildrenRecursive(Root) :
                    colls[c].hide_select \/ colls[c].hide_viewport }
        so == Sorted(os)
        sc == Sorted(cs)
    IN  [i \in 1..Len(so) |->
            [kind |-> "object", id |-> so[i],
             hide_select |-> objects[so[i]].hide_select,
             hide_viewport |-> objects[so[i]].hide_viewport]]
        \o
        [i \in 1..Len(sc) |->
            [kind |-> "collection", id |-> sc[i],
             hide_select |-> colls[sc[i]].hide_select,
             hide_viewport |-> colls[sc[i]].hide_viewport]]

\* The scene's flags: [colls, objects].
Flags == [colls |-> colls, objects |-> objects]

\* `oc.hide_select = hs` on the flags fl.
SetHideSelect(fl, e, hs) ==
    IF e.kind = "object"
    THEN IF e.id \in DOMAIN fl.objects
         THEN [fl EXCEPT !.objects[e.id].hide_select = hs] ELSE fl
    ELSE [fl EXCEPT !.colls[e.id].hide_select = hs]

\* `oc.hide_viewport = hv` on the flags fl.
SetHideViewport(fl, e, hv) ==
    IF e.kind = "object"
    THEN IF e.id \in DOMAIN fl.objects
         THEN [fl EXCEPT !.objects[e.id].hide_viewport = hv] ELSE fl
    ELSE [fl EXCEPT !.colls[e.id].hide_viewport = hv]

RECURSIVE clear_global_properties(_, _, _)
\* The loop of lines 367-369 stopped after k assignments (all of them when
\* k is twice the length of the list).
clear_global_properties(fl, save, k) ==
    IF save = <<>> \/ k = 0 THEN fl
    ELSE LET one == SetHideSelect(fl, Head(save), FALSE)
         IN  IF k = 1 THEN one
             ELSE clear_global_properties(SetHideViewport(one, Head(save), FALSE),
                                          Tail(save), k - 2)

RECURSIVE select_only_restore_global_properties(_, _)
\* A variant that restores hide_select alone.
select_only_restore_global_properties(fl, save) ==
    IF save = <<>> THEN fl
    ELSE select_only_restore_global_properties(
            SetHideSelect(fl, Head(save), Head(save).hide_select), Tail(save))

RECURSIVE restore_global_properties(_, _)
\* restore_global_properties(save)
restore_global_properties(fl, save) ==
    IF save = <<>> THEN fl
    ELSE restore_global_properties(
            SetHideViewport(SetHideSelect(fl, Head(save), Head(save).hide_select),
                            Head(save), Head(save).hide_viewport),
            Tail(save))

\* A variant that leaves out the intersection with the collection's objects.
whole_layer_select_included_objects_in_collection(lay, collection, hidden_objects, mesh_only) ==
    { o \in ViewLayerObjects(lay) \ hidden_objects :
        /\ (~mesh_only \/ objects[o].type = "MESH")
        /\ Selectable(o) }

\* A variant that forgets the objects recorded as hidden.
unhidden_select_included_objects_in_collection(lay, collection, hidden_objects, mesh_only) ==
    { o \in AllObjects(collection) \cap ViewLayerObjects(lay) :
        /\ (~mesh_only \/ objects[o].type = "MESH")
        /\ Selectable(o) }

\* select_included_objects_in_collection(view_layer, collection,
\* hidden_objects, mesh_only): the objects selected when it returns.
select_included_objects_in_collection(lay, collection, hidden_objects, mesh_only) ==
    { o \in (AllObjects(collection) \cap ViewLayerObjects(lay)) \ hidden_objects :
        /\ (~mesh_only \/ objects[o].type = "MESH")
        /\ Selectable(o) }

\* What the scene is to the user: the hide flags of the collections, the
\* objects with theirs, the view layers there are and the active one.
Scene ==
    [colls |-> colls, objects |-> objects,
     view_layers |-> DOMAIN view_layers, window |-> window]

\* ------------------------------------------------------------------------
\* Spec: QXC_OT_export.execute, invoked any number of times

\* The objects of the scene: object o lies in collection o % ExecNodes,
\* every fourth one, from the second on, is not a mesh, and the first one
\* bears the name of its collection.
ExecObjects ==
    [o \in 1..NumLeaves |->
        [owner |-> o % ExecNodes,
         type  |-> IF o % 4 = 2 THEN "EMPTY" ELSE "MESH",
         name  |-> IF o = 1 THEN Name(o % ExecNodes) ELSE <<"object", o>>,
         hide_select |-> FALSE, hide_viewport |-> FALSE]]

ExecColls == [c \in 1..(ExecNodes - 1) |-> [hide_select |-> FALSE, hide_viewport |-> FALSE]]

\* What the user has hidden before the command runs: nothing, one object or
\* one collection (hide_select or hide_viewport), or one collection excluded
\* in the user's view layer.
HiddenChoices ==
    {[what |-> "nothing", id |-> 0, flag |-> "none"]}
    \cup [what : {"object"}, id : 1..NumLeaves, flag : {"hide_select", "hide_viewport"}]
    \cup [what : {"collection"}, id : 1..(ExecNodes - 1),
          flag : {"hide_select", "hide_viewport"}]
    \cup [what : {"excluded"}, id : 1..(ExecNodes - 1), flag : {"none"}]

Hide(rec, flag) ==
    [rec EXCEPT !.hide_select = (flag = "hide_select"),
                !.hide_viewport = (flag = "hide_viewport")]

\* The sections a config file may hold for a collection name.
SectionChoices ==
    { <<>>,
      [k \in {"exportable"} |-> "False"],
      [k \in {"join_meshes"} |-> "True"] }

ExecNames == { Name(c) : c \in 0..(ExecNodes - 1) }

\* The DEFAULT sections of those files: with and without use_visible.
DefaultChoices ==
    { [k \in {"exporter", "directory"} |-> IF k = "exporter" THEN "fbx" ELSE "//"],
      [k \in {"exporter", "directory", "use_visible"} |->
            IF k = "exporter" THEN "fbx"
            ELSE IF k = "directory" THEN "//" ELSE "True"] }

\* The config files the command is run with: none, a blank one, one with a
\* DEFAULT section alone, or one with a section for every collection name.
ExecTexts ==
    { [present |-> FALSE, blank |-> FALSE, config |-> NoConfig],
      [present |-> TRUE, blank |-> TRUE, config |-> NoConfig] }
    \cup
    { [present |-> TRUE, blank |-> FALSE,
       config |-> [default |-> d, sections |-> sec]] :
        d \in DefaultChoices,
        sec \in {<<>>} \cup [ExecNames -> SectionChoices] }

IdleFrame ==
    [collection_to_export |-> Root,
     exporter_name |-> "", settings |-> <<>>,
     not_exportable |-> {}, requesting_join |-> {}, joined_mesh_names |-> <<>>,
     saved_object_properties |-> <<>>, hidden_objects |-> {},
     collections_to_join |-> <<>>, next_join |-> 1,
     joined_meshes |-> <<>>, duplicated_meshes |-> <<>>, abort_postjoin_meshes |-> <<>>,
     result |-> "CANCELLED", is_empty |-> FALSE,
     saved_view_layer |-> 0, new_view_layer |-> 0,
     raised |-> FALSE]

IdleTrace(first) ==
    [scene0 |-> first, pre |-> first, outcome |-> "none", reports |-> <<>>,
     cleanup |-> <<>>, exported |-> <<>>, layer_created |-> FALSE,
     failed_at |-> "none",
     pre_texts |-> texts, first_run |-> {}, export_returned |-> "none",
     join_inputs |-> <<>>]

Init ==
    /\ parent \in Trees(ExecNodes)
    /\ host = [recursive_exclude |-> TRUE, is_saved |-> TRUE, dirs |-> {"//"},
              odd_names |-> <<>>, added_exporters |-> {}]
    /\ \E h \in HiddenChoices :
          /\ colls = [c \in DOMAIN ExecColls |->
                        IF h.what = "collection" /\ h.id = c
                        THEN Hide(ExecColls[c], h.flag) ELSE ExecColls[c]]
          /\ objects = [o \in DOMAIN ExecObjects |->
                        IF h.what = "object" /\ h.id = o
                        THEN Hide(ExecObjects[o], h.flag) ELSE ExecObjects[o]]
          /\ view_layers = [l \in {1} |->
                        [NewLayer(0..(ExecNodes - 1)) EXCEPT
                            !.exclude = [c \in 0..(ExecNodes - 1) |->
                                            h.what = "excluded" /\ h.id = c]]]
    /\ window = 1
    /\ texts \in ExecTexts
    /\ pc = "idle"
    /\ frame = IdleFrame
    /\ trace = IdleTrace(Scene)

\* The position the command continues at when an exception is raised at
\* `stage`: the finally block of the innermost try that holds the stage.
OnRaise(stage) ==
    IF stage = "propagate" THEN "switch"
    ELSE IF stage = "clear" THEN "restore"
    ELSE "remove"

\* A variant with the view layer destroyed before the window is switched back.
destroy_first_AfterCleanup(step) ==
    IF step = "remove" THEN "restore"
    ELSE IF step = "restore" THEN "destroy"
    ELSE IF step = "destroy" THEN "switch"
    ELSE "idle"

\* The position after a cleanup step (lines 476-498).
AfterCleanup(step) ==
    IF step = "remove" THEN "restore"
    ELSE IF step = "restore" THEN "switch"
    ELSE IF step = "switch" THEN "destroy"
    ELSE "idle"

\* The position after the turn of the join loop for unit number i.
AfterJoinTurn(i) == IF i < Len(frame.collections_to_join) THEN "join" ELSE "select"

Raise(stage) ==
    /\ pc' = OnRaise(stage)
    /\ trace' = [trace EXCEPT !.failed_at = stage]

\* execute is called for collection t (lines 261-270).
Invoke(t) ==
    /\ pc = "idle"
    /\ pc' = "settings"
    /\ frame' = [IdleFrame EXCEPT !.collection_to_export = t]
    /\ trace' = [IdleTrace(trace.scene0) EXCEPT !.pre = Scene, !.outcome = "running",
                                                !.first_run = trace.first_run]
    /\ UNCHANGED <<parent, host, colls, objects, view_layers, window, texts>>

\* A variant without the return on None: the command goes on with what
\* get_export_settings gave.
unchecked_GetSettings ==
    /\ pc = "settings"
    /\ LET s == get_export_settings(Name(frame.collection_to_export))
       IN  /\ texts' = s.texts
           /\ IF s.result # "raise"
              THEN /\ pc' = "prepare"
                   /\ frame' = [frame EXCEPT
                                  !.exporter_name = s.exporter_name,
                                  !.settings = s.args,
                                  !.not_exportable = s.not_exportable,
                                  !.requesting_join = s.requesting_join,
                                  !.joined_mesh_names = s.joined_mesh_names]
                   /\ trace' = [trace EXCEPT !.reports = s.reports]
              ELSE /\ pc' = "idle"
                   /\ frame' = frame
                   /\ trace' = [trace EXCEPT !.reports = s.reports, !.outcome = "RAISED"]
    /\ UNCHANGED <<parent, host, colls, objects, view_layers, window>>

\* get_export_settings and the return on None (lines 272-275).
GetSettings ==
    /\ pc = "settings"
    /\ LET s == get_export_settings(Name(frame.collection_to_export))
       IN  /\ texts' = s.texts
           /\ IF s.result = "tuple"
              THEN /\ pc' = "prepare"
                   /\ frame' = [frame EXCEPT
                                  !.exporter_name = s.exporter_name,
                                  !.settings = s.args,
                                  !.not_exportable = s.not_exportable,
                                  !.requesting_join = s.requesting_join,
                                  !.joined_mesh_names = s.joined_mesh_names]
                   /\ trace' = [trace EXCEPT !.reports = s.reports]
              ELSE /\ pc' = "idle"
                   /\ frame' = frame
                   /\ trace' = [trace EXCEPT
                                  !.reports = s.reports,
                                  !.outcome = IF s.result = "raise" THEN "RAISED"
                                              ELSE "CANCELLED",
                                  !.first_run =
                                        IF s.texts # texts
                                        THEN @ \cup {Name(frame.collection_to_export)}
                                        ELSE @]
    /\ UNCHANGED <<parent, host, colls, objects, view_layers, window>>

\* The settings handed to the exporter (lines 287-308, 322-323).
FinalSettings(settings, exporter_name) ==
    LET popped == [k \in DOMAIN settings \ {"use_active_collection", "use_selection"} |->
                      settings[k]]
        keys == (DOMAIN popped \cup {"check_existing", "use_selection"})
                    \cup (IF KeyInProperties("use_active_collection", exporter_name)
                          THEN {"use_active_collection"} ELSE {})
        full == [k \in keys |->
                    IF k = "use_selection" THEN TRUE
                    ELSE IF k = "use_active_collection" THEN FALSE
                    ELSE IF k \in DOMAIN popped THEN popped[k]
                    ELSE FALSE]
    IN  IF "use_visible" \in DOMAIN full /\ full["use_visible"]
        THEN [k \in DOMAIN full \ {"use_visible"} |-> full[k]]
        ELSE full

\* The use_selection test, the settings, the record of the hide flags, the
\* hidden objects and the collections to join (lines 277-341).
Prepare ==
    /\ pc = "prepare"
    /\ IF KeyInProperties("use_selection", frame.exporter_name)
       THEN /\ pc' = "idle"
            /\ frame' = frame
            /\ trace' = [trace EXCEPT
                           !.reports = Append(@, <<"ERROR", "no use_selection">>),
                           !.outcome = "CANCELLED"]
       ELSE /\ pc' = "add_layer"
            /\ frame' = [frame EXCEPT
                  !.settings = FinalSettings(frame.settings, frame.exporter_name),
                  !.saved_object_properties =
                        save_global_properties(frame.collection_to_export),
                  !.hidden_objects =
                        IF "use_visible" \in DOMAIN frame.settings
                                /\ frame.settings["use_visible"]
                        THEN { o \in AllObjects(frame.collection_to_export) :
                                    ~Visible(view_layers[window], o) }
                        ELSE {},
                  !.collections_to_join =
                        IF frame.requesting_join # {}
                        THEN find_topmost_collections(frame.requesting_join,
                                                      frame.collection_to_export)
                        ELSE <<>>,
                  !.result = "CANCELLED"]
            /\ trace' = trace
    /\ UNCHANGED <<parent, host, colls, objects, view_layers, window, texts>>

\* bpy.ops.scene.view_layer_add(type='NEW') (lines 350-352).
AddViewLayer ==
    /\ pc = "add_layer"
    /\ LET new == Max(DOMAIN view_layers) + 1
       IN  /\ view_layers' = [l \in DOMAIN view_layers \cup {new} |->
                                IF l = new THEN NewLayer(Nodes) ELSE view_layers[l]]
           /\ window' = new
           /\ frame' = [frame EXCEPT !.saved_view_layer = window, !.new_view_layer = new]
    /\ pc' = "propagate"
    /\ trace' = [trace EXCEPT !.layer_created = TRUE]
    /\ UNCHANGED <<parent, host, colls, objects, texts>>

\* The host adds no view layer and the sanity check raises (lines 355-356).
AddViewLayerFails ==
    /\ pc = "add_layer"
    /\ pc' = "idle"
    /\ frame' = [frame EXCEPT !.saved_view_layer = window, !.new_view_layer = window,
                              !.raised = TRUE]
    /\ trace' = [trace EXCEPT !.outcome = "RAISED", !.failed_at = "add_layer"]
    /\ UNCHANGED <<parent, host, colls, objects, view_layers, window, texts>>

RECURSIVE ReplayWrites(_, _)
\* The view layer after the assignments `writes`, in order.
ReplayWrites(lay, writes) ==
    IF writes = <<>> THEN lay
    ELSE ReplayWrites(AssignExclude(lay, Head(writes)[1], Head(writes)[2], "partial"),
                      Tail(writes))

Propagated(lay) ==
    set_excluded_collections(lay, Root, frame.not_exportable,
                             frame.collection_to_export, FALSE, FALSE)

\* A variant that marks the collections of the view layer the user had.
user_layer_PropagateExclusion ==
    /\ pc = "propagate"
    /\ view_layers' = [view_layers EXCEPT ![frame.saved_view_layer] = Propagated(@)]
    /\ pc' = "clear"
    /\ UNCHANGED <<parent, host, colls, objects, window, texts, frame, trace>>

\* set_excluded_collections on the new view layer (line 363).
PropagateExclusion ==
    /\ pc = "propagate"
    /\ view_layers' = [view_layers EXCEPT ![frame.new_view_layer] = Propagated(@)]
    /\ pc' = "clear"
    /\ UNCHANGED <<parent, host, colls, objects, window, texts, frame, trace>>

\* An assignment of set_excluded_collections raises after k of them were made.
PropagateRaises ==
    /\ pc = "propagate"
    /\ LET lay == view_layers[frame.new_view_layer]
           writes == Propagated(lay).log
       IN  \E k \in 0..(Len(writes) - 1) :
              view_layers' = [view_layers EXCEPT
                                ![frame.new_view_layer] = ReplayWrites(lay, SubSeq(writes, 1, k))]
    /\ frame' = [frame EXCEPT !.raised = TRUE]
    /\ Raise("propagate")
    /\ UNCHANGED <<parent, host, colls, objects, window, texts>>

\* The hide flags recorded are cleared (lines 367-369).
ClearFlags ==
    /\ pc = "clear"
    /\ LET fl == clear_global_properties(Flags, frame.saved_object_properties,
                                         2 * Len(frame.saved_object_properties))
       IN  colls' = fl.colls /\ objects' = fl.objects
    /\ pc' = AfterJoinTurn(0)
    /\ UNCHANGED <<parent, host, view_layers, window, texts, frame, trace>>

\* An assignment of the clearing loop raises after k of them were made.
ClearRaises ==
    /\ pc = "clear"
    /\ \E k \in 0..(2 * Len(frame.saved_object_properties) - 1) :
          LET fl == clear_global_properties(Flags, frame.saved_object_properties, k)
          IN  colls' = fl.colls /\ objects' = fl.objects
    /\ frame' = [frame EXCEPT !.raised = TRUE]
    /\ Raise("clear")
    /\ UNCHANGED <<parent, host, view_layers, window, texts>>

\* The collection whose meshes the join loop is at.
JoinUnit == frame.collections_to_join[frame.next_join]

\* The meshes selected for the unit (line 391).
JoinSelection ==
    select_included_objects_in_collection(view_layers[frame.new_view_layer], JoinUnit,
                                          frame.hidden_objects, TRUE)

SetSelected(sel) == [view_layers EXCEPT ![frame.new_view_layer].selected = sel]

\* A turn of the join loop with no mesh selected (lines 390-392).
JoinNothing ==
    /\ pc = "join"
    /\ JoinSelection = {}
    /\ view_layers' = SetSelected({})
    /\ frame' = [frame EXCEPT !.next_join = @ + 1]
    /\ pc' = AfterJoinTurn(frame.next_join)
    /\ trace' = [trace EXCEPT !.join_inputs = With(@, JoinUnit, {})]
    /\ UNCHANGED <<parent, host, colls, objects, window, texts>>

\* The name the host gives in place of one that an object bears already
\* (names of objects are unique: a numeric suffix is added).
Suffixed(name) == Append(name, ".001")

\* The name object o has after `o.name = name` among the objects `others`.
UniqueName(name, o, others) ==
    IF \E n \in others \ {o} : objects[n].name = name THEN Suffixed(name) ELSE name

\* bpy.ops.object.duplicate(linked=False) of the selected meshes: the copy
\* of o, and the selection and duplicated_meshes after it (lines 393-399).
CopyOf(o) == Max(DOMAIN objects) + o

Duplicate ==
    /\ pc = "join"
    /\ JoinSelection # {}
    /\ LET copies == { CopyOf(o) : o \in JoinSelection }
       IN  /\ objects' = [n \in DOMAIN objects \cup copies |->
                            IF n \in DOMAIN objects THEN objects[n]
                            ELSE [objects[n - Max(DOMAIN objects)] EXCEPT
                                    !.name = Suffixed(@)]]
           /\ view_layers' = SetSelected(copies)
           /\ frame' = [frame EXCEPT !.duplicated_meshes = Sorted(copies)]
    /\ pc' = "joining"
    /\ trace' = [trace EXCEPT !.join_inputs = With(@, JoinUnit, JoinSelection)]
    /\ UNCHANGED <<parent, host, colls, window, texts>>

\* duplicate returns something else than FINISHED (lines 393-394).
DuplicateFails ==
    /\ pc = "join"
    /\ JoinSelection # {}
    /\ view_layers' = SetSelected(JoinSelection)
    /\ frame' = [frame EXCEPT !.raised = TRUE]
    /\ pc' = OnRaise("duplicate")
    /\ trace' = [trace EXCEPT !.failed_at = "duplicate",
                              !.join_inputs = With(@, JoinUnit, JoinSelection)]
    /\ UNCHANGED <<parent, host, colls, objects, window, texts>>

Selected == view_layers[frame.new_view_layer].selected

\* context.selected_objects[0], made the active object (line 399).
ActiveObject == frame.duplicated_meshes[1]

\* join where needed, the check of one object selected, the naming of the
\* joined mesh and its recording (lines 401-417).
JoinMeshes ==
    /\ pc = "joining"
    /\ LET new_joined_mesh == ActiveObject
           kept == (DOMAIN objects \ Selected) \cup {new_joined_mesh}
       IN  IF \E i \in DOMAIN frame.joined_meshes : frame.joined_meshes[i] = new_joined_mesh
           THEN /\ objects' = [n \in kept |-> objects[n]]
                /\ view_layers' = SetSelected({new_joined_mesh})
                /\ frame' = [frame EXCEPT !.raised = TRUE]
                /\ Raise("duplicate in joined list")
           ELSE /\ objects' = [n \in kept |->
                                IF n = new_joined_mesh
                                THEN [objects[n] EXCEPT
                                        !.name = UniqueName(
                                            frame.joined_mesh_names[Name(JoinUnit)],
                                            n, kept)]
                                ELSE objects[n]]
                /\ view_layers' = SetSelected({new_joined_mesh})
                /\ frame' = [frame EXCEPT
                                !.joined_meshes = Append(@, new_joined_mesh),
                                !.duplicated_meshes = <<>>,
                                !.next_join = @ + 1]
                /\ pc' = AfterJoinTurn(frame.next_join)
                /\ trace' = trace
    /\ UNCHANGED <<parent, host, colls, window, texts>>

\* join returns something else than FINISHED (lines 401-403).
JoinFails ==
    /\ pc = "joining"
    /\ Cardinality(Selected) > 1
    /\ frame' = [frame EXCEPT !.raised = TRUE]
    /\ Raise("join")
    /\ UNCHANGED <<parent, host, colls, objects, view_layers, window, texts>>

\* join returns FINISHED and leaves several objects selected (lines 405-407).
JoinLeavesSeveral ==
    /\ pc = "joining"
    /\ Cardinality(Selected) > 1
    /\ frame' = [frame EXCEPT !.abort_postjoin_meshes = Sorted(Selected),
                              !.raised = TRUE]
    /\ Raise("postjoin")
    /\ UNCHANGED <<parent, host, colls, objects, view_layers, window, texts>>

\* A variant that takes the meshes lying directly in a joined collection.
direct_MeshesOfJoined ==
    { o \in DOMAIN objects :
        /\ objects[o].type = "MESH"
        /\ \E i \in DOMAIN frame.collections_to_join :
              objects[o].owner = frame.collections_to_join[i] }

\* The meshes of the collections joined (lines 445-448).
MeshesOfJoined ==
    { o \in DOMAIN objects :
        /\ objects[o].type = "MESH"
        /\ \E i \in DOMAIN frame.collections_to_join :
              o \in AllObjects(frame.collections_to_join[i]) }

\* The selection for the export (lines 437-464).
FinalSelection ==
    (select_included_objects_in_collection(view_layers[frame.new_view_layer],
                                           frame.collection_to_export,
                                           frame.hidden_objects, FALSE)
        \ MeshesOfJoined)
    \cup { o \in Range(frame.joined_meshes) : Selectable(o) }

\* A variant that takes is_empty before the joined meshes are selected again.
early_empty_SelectForExport ==
    /\ pc = "select"
    /\ view_layers' = SetSelected(FinalSelection)
    /\ frame' = [frame EXCEPT !.is_empty = (FinalSelection \ Range(frame.joined_meshes) = {})]
    /\ pc' = "export"
    /\ UNCHANGED <<parent, host, colls, objects, window, texts, trace>>

\* The selection is made and is_empty taken from it (lines 437-464).
SelectForExport ==
    /\ pc = "select"
    /\ view_layers' = SetSelected(FinalSelection)
    /\ frame' = [frame EXCEPT !.is_empty = (FinalSelection = {})]
    /\ pc' = "export"
    /\ UNCHANGED <<parent, host, colls, objects, window, texts, trace>>

\* A selection operator raises (lines 437-457).
SelectRaises ==
    /\ pc = "select"
    /\ view_layers' = SetSelected({})
    /\ frame' = [frame EXCEPT !.raised = TRUE]
    /\ Raise("select")
    /\ UNCHANGED <<parent, host, colls, objects, window, texts>>

\* What the exporter is called with: the settings and the objects selected.
ExportCall ==
    [settings |-> frame.settings,
     selected |-> [o \in Selected |-> objects[o]]]

\* A variant that takes every return of the exporter for FINISHED.
optimistic_Export(returned) ==
    /\ pc = "export"
    /\ AcceptsKeywords(frame.exporter_name, frame.settings)
    /\ frame' = [frame EXCEPT !.result = "FINISHED"]
    /\ trace' = [trace EXCEPT
                    !.exported = Append(@, ExportCall),
                    !.export_returned = returned,
                    !.reports = Append(@, IF frame.is_empty
                                          THEN <<"WARNING", "export is empty">>
                                          ELSE <<"INFO", "exported">>)]
    /\ pc' = "remove"
    /\ UNCHANGED <<parent, host, colls, objects, view_layers, window, texts>>

\* export_func(**settings) returns (lines 467-474).
Export(returned) ==
    /\ pc = "export"
    /\ AcceptsKeywords(frame.exporter_name, frame.settings)
    /\ frame' = [frame EXCEPT !.result = returned]
    /\ trace' = [trace EXCEPT
                    !.exported = Append(@, ExportCall),
                    !.export_returned = returned,
                    !.reports =
                        IF returned = "FINISHED"
                        THEN Append(@, IF frame.is_empty
                                       THEN <<"WARNING", "export is empty">>
                                       ELSE <<"INFO", "exported">>)
                        ELSE @]
    /\ pc' = "remove"
    /\ UNCHANGED <<parent, host, colls, objects, view_layers, window, texts>>

\* export_func(**settings) raises.
ExportRaises ==
    /\ pc = "export"
    /\ frame' = [frame EXCEPT !.raised = TRUE]
    /\ trace' = [trace EXCEPT !.exported = Append(@, ExportCall),
                              !.failed_at = "export"]
    /\ pc' = OnRaise("export")
    /\ UNCHANGED <<parent, host, colls, objects, view_layers, window, texts>>

\* A variant that removes the joined meshes alone.
joined_only_CreatedMeshes(joined_meshes, duplicated_meshes, abort_postjoin_meshes) ==
    Range(joined_meshes)

\* The objects the innermost finally removes (lines 480-488).
CreatedMeshes(joined_meshes, duplicated_meshes, abort_postjoin_meshes) ==
    Range(joined_meshes) \cup Range(duplicated_meshes) \cup Range(abort_postjoin_meshes)

\* The innermost finally: the objects made by the joining are removed.
RemoveCreated ==
    /\ pc = "remove"
    /\ LET gone == CreatedMeshes(frame.joined_meshes, frame.duplicated_meshes,
                                 frame.abort_postjoin_meshes)
       IN  /\ objects' = [n \in DOMAIN objects \ gone |-> objects[n]]
           /\ view_layers' = [l \in DOMAIN view_layers |->
                                [view_layers[l] EXCEPT !.selected = @ \ gone]]
    /\ trace' = [trace EXCEPT !.cleanup = Append(@, "remove")]
    /\ pc' = AfterCleanup("remove")
    /\ UNCHANGED <<parent, host, colls, window, texts, frame>>

\* The middle finally: restore_global_properties (line 490).
RestoreFlags ==
    /\ pc = "restore"
    /\ LET fl == restore_global_properties(Flags, frame.saved_object_properties)
       IN  colls' = fl.colls /\ objects' = fl.objects
    /\ trace' = [trace EXCEPT !.cleanup = Append(@, "restore")]
    /\ pc' = AfterCleanup("restore")
    /\ UNCHANGED <<parent, host, view_layers, window, texts, frame>>

\* The outer finally, first statement: the window shows the saved view
\* layer again (line 494).
SwitchBack ==
    /\ pc = "switch"
    /\ window' = frame.saved_view_layer
    /\ trace' = [trace EXCEPT
                    !.cleanup = Append(@, "switch"),
                    !.outcome = IF AfterCleanup("switch") = "idle"
                                THEN (IF frame.raised THEN "RAISED" ELSE frame.result)
                                ELSE @]
    /\ pc' = AfterCleanup("switch")
    /\ UNCHANGED <<parent, host, colls, objects, view_layers, texts, frame>>

\* The outer finally, second statement, and the return: the new view layer
\* is removed (lines 496-498).
RemoveViewLayer ==
    /\ pc = "destroy"
    /\ view_layers' = [l \in DOMAIN view_layers \ {frame.new_view_layer} |-> view_layers[l]]
    /\ trace' = [trace EXCEPT
                    !.cleanup = Append(@, "destroy"),
                    !.outcome = IF AfterCleanup("destroy") = "idle"
                                THEN (IF frame.raised THEN "RAISED" ELSE frame.result)
                                ELSE @]
    /\ pc' = AfterCleanup("destroy")
    /\ UNCHANGED <<parent, host, colls, objects, window, texts, frame>>

Next ==
    \/ \E t \in Nodes : Invoke(t)
    \/ GetSettings
    \/ Prepare
    \/ AddViewLayer
    \/ AddViewLayerFails
    \/ PropagateExclusion
    \/ PropagateRaises
    \/ ClearFlags
    \/ ClearRaises
    \/ JoinNothing
    \/ Duplicate
    \/ DuplicateFails
    \/ JoinMeshes
    \/ JoinFails
    \/ JoinLeavesSeveral
    \/ SelectForExport
    \/ SelectRaises
    \/ \E returned \in {"FINISHED", "CANCELLED"} : Export(returned)
    \/ ExportRaises
    \/ RemoveCreated
    \/ RestoreFlags
    \/ SwitchBack
    \/ RemoveViewLayer

Spec == Init /\ [][Next]_vars

\* ------------------------------------------------------------------------
\* SpecSettings: execute over the config files get_export_settings tells apart

\* The DEFAULT section of the file make_new_config_file writes.
BaseDefault == [k \in {"exporter", "directory"} |-> IF k = "exporter" THEN "fbx" ELSE "//"]

\* A filename the user wrote into the file.
UserFilename == <<<<"file", 0>>, "fbx">>

\* A path the user wrote into the file under the key filepath.
UserFilepath == <<"//elsewhere", UserFilename>>

\* A DEFAULT section that gives a value to each of the keys
\* get_properties_for_op skips.
SkippedKeysDefault ==
    [k \in DOMAIN BaseDefault \cup {"filepath", "filter_glob", "use_active_collection",
                                    "use_selection", "batch_mode"} |->
        IF k \in DOMAIN BaseDefault THEN BaseDefault[k]
        ELSE IF k = "filepath" THEN UserFilepath
        ELSE IF k = "filter_glob" THEN "*.obj"
        ELSE IF k = "use_active_collection" THEN "True"
        ELSE IF k = "use_selection" THEN "False"
        ELSE "SCENE"]

\* The DEFAULT sections: the one make_new_config_file writes, and that one
\* with one more key or another value.
SettingsDefaults ==
    {BaseDefault}
    \cup { With(BaseDefault, kv[1], kv[2]) :
            kv \in { <<"exportable", "False">>, <<"exportable", "maybe">>,
                     <<"exporter", "obj">>,
                     <<"directory", "./">>, <<"directory", ".">>,
                     <<"directory", "//missing">>,
                     <<"check_existing", "True">>, <<"use_visible", "True">> } }
    \cup { With(BaseDefault, "filename", UserFilename), SkippedKeysDefault }

\* The sections of the file: none, one for a single collection name or one
\* for each name, with the same content in each, which may be an exporter
\* parameter that is no boolean.
SettingsSections ==
    { [n \in S |-> k] :
        S \in {{}, ExecNames} \cup { {n} : n \in ExecNames },
        k \in SectionChoices \cup { [x \in {"use_visible"} |-> "maybe"] } }

SettingsTexts ==
    { [present |-> FALSE, blank |-> FALSE, config |-> NoConfig],
      [present |-> TRUE, blank |-> TRUE, config |-> NoConfig] }
    \cup
    { [present |-> TRUE, blank |-> FALSE,
       config |-> [default |-> d, sections |-> sec]] :
        d \in SettingsDefaults, sec \in SettingsSections }

\* The collection names out of the ordinary: none, one with a "%" in it, or
\* one that reads "DEFAULT".
OddNameChoices == { <<>>, 1 :> "percent", 2 :> "reserved" }

InitSettings ==
    /\ parent \in Trees(ExecNodes)
    /\ host \in [recursive_exclude : {TRUE}, is_saved : BOOLEAN, dirs : {{"//"}},
                 odd_names : OddNameChoices, added_exporters : {{}}]
    /\ \E hs \in BOOLEAN :
          /\ colls = [c \in DOMAIN ExecColls |->
                      IF c = 1 /\ hs THEN Hide(ExecColls[c], "hide_select") ELSE ExecColls[c]]
          /\ objects = [o \in DOMAIN ExecObjects |->
                      IF hs /\ ExecObjects[o].owner = ExecNodes - 1
                      THEN Hide(ExecObjects[o], "hide_viewport") ELSE ExecObjects[o]]
    /\ view_layers = [l \in {1} |-> NewLayer(0..(ExecNodes - 1))]
    /\ window = 1
    /\ texts \in SettingsTexts
    /\ DOMAIN texts.config.sections \cap ReservedNames = {}
    /\ pc = "idle"
    /\ frame = IdleFrame
    /\ trace = IdleTrace(Scene)

SpecSettings == InitSettings /\ [][Next]_vars

\* ------------------------------------------------------------------------
\* SpecArgs: get_exporter_args_from_config over lists of properties of every
\* kind and sections that give them good values, bad values or none

\* One property of each kind the function tells apart, and one of a kind it
\* has no branch for.
ArgProperties ==
    { [name |-> "use_triangles", kind |-> "Bool", options |-> {}, is_enum_flag |-> FALSE],
      [name |-> "collection", kind |-> "String", options |-> {}, is_enum_flag |-> FALSE],
      [name |-> "global_scale", kind |-> "Float", options |-> {}, is_enum_flag |-> FALSE],
      [name |-> "subdivisions", kind |-> "Int", options |-> {}, is_enum_flag |-> FALSE],
      [name |-> "axis_up", kind |-> "Enum", options |-> {"X", "Y", "Z"},
       is_enum_flag |-> FALSE],
      [name |-> "object_types", kind |-> "Enum", options |-> {"MESH", "EMPTY"},
       is_enum_flag |-> TRUE],
      [name |-> "files", kind |-> "Collection", options |-> {}, is_enum_flag |-> FALSE] }

\* The values a config file may give a property: one the coercion takes and,
\* where there is one, one it refuses.
ArgValues(prop) ==
    IF prop.kind = "Bool" THEN {"True", "maybe"}
    ELSE IF prop.kind = "String" THEN {"Props"}
    ELSE IF prop.kind = "Float" THEN {"1.5", "fast"}
    ELSE IF prop.kind = "Int" THEN {"2", "1.5"}
    ELSE IF prop.kind = "Enum" /\ prop.is_enum_flag
    THEN {"MESH,EMPTY", "MESH,LAMP"}
    ELSE IF prop.kind = "Enum" THEN {"Y", "W"}
    ELSE {"a.fbx"}

\* The lists of up to MaxProps different properties.
ArgLists ==
    { q \in UNION { [1..n -> ArgProperties] : n \in 1..MaxProps } :
        \A i, j \in DOMAIN q : i # j => q[i] # q[j] }

\* The options a file gives to the properties of list q: each property has
\* one of its values or none.
ArgOptions(q) ==
    UNION { { f \in [{ q[i].name : i \in S } -> UNION { ArgValues(q[i]) : i \in S }] :
                \A i \in S : f[q[i].name] \in ArgValues(q[i]) } :
            S \in SUBSET DOMAIN q }

ArgSection == <<"section", 0>>

InitArgs ==
    /\ parent = <<>>
    /\ host = [recursive_exclude |-> TRUE, is_saved |-> TRUE, dirs |-> {"//"},
               odd_names |-> <<>>, added_exporters |-> {}]
    /\ colls = NoScene
    /\ objects = NoScene
    /\ view_layers = NoScene
    /\ window = 0
    /\ texts = "none"
    /\ pc = "call"
    /\ \E q \in ArgLists : \E f \in ArgOptions(q) : \E in_default \in BOOLEAN :
          frame = [props |-> q,
                   config |-> [default  |-> IF in_default THEN f ELSE <<>>,
                               sections |-> [n \in {ArgSection} |->
                                                IF in_default THEN <<>> ELSE f]]]
    /\ trace = [got |-> NoArgs]

\* The call of get_exporter_args_from_config (get_export_settings, line 590).
ResolveArgs ==
    /\ pc = "call"
    /\ pc' = "returned"
    /\ trace' = [got |-> exporter_args_loop(frame.props, 1, frame.config, ArgSection,
                                           NoArgs)]
    /\ UNCHANGED <<parent, host, colls, objects, view_layers, window, texts, frame>>

NextArgs == ResolveArgs

SpecArgs == InitArgs /\ [][NextArgs]_vars

\* ------------------------------------------------------------------------
\* SpecExporters: execute with a second exporter entered in EXPORTERS, one
\* whose operator has no use_selection property

\* The config files of ExecTexts, and those with the second exporter chosen
\* in the DEFAULT section.
ExporterTexts ==
    ExecTexts
    \cup { [t EXCEPT !.config.default.exporter = "usd"] :
            t \in { x \in ExecTexts : x.present /\ ~x.blank } }

\* What the user has hidden: nothing, or one object from the viewport.
ExporterHidden ==
    { h \in HiddenChoices :
        h.what = "nothing" \/ (h.what = "object" /\ h.flag = "hide_viewport") }

InitExporters ==
    /\ parent \in Trees(ExecNodes)
    /\ host = [recursive_exclude |-> TRUE, is_saved |-> TRUE, dirs |-> {"//"},
               odd_names |-> <<>>, added_exporters |-> {"usd"}]
    /\ colls = ExecColls
    /\ \E h \in ExporterHidden :
          objects = [o \in DOMAIN ExecObjects |->
                        IF h.what = "object" /\ h.id = o
                        THEN Hide(ExecObjects[o], h.flag) ELSE ExecObjects[o]]
    /\ view_layers = [l \in {1} |-> NewLayer(0..(ExecNodes - 1))]
    /\ window = 1
    /\ texts \in ExporterTexts
    /\ pc = "idle"
    /\ frame = IdleFrame
    /\ trace = IdleTrace(Scene)

SpecExporters == InitExporters /\ [][Next]_vars

\* ------------------------------------------------------------------------
\* Properties of the export command (Spec)

Exited == pc = "idle" /\ trace.outcome # "none"

\* C1: when execute exits after a failure raised once the temporary view
\* layer existed, the hide_select and hide_viewport flags of every
\* collection and object are those from before the run, the window shows
\* the original view layer, the temporary view layer is gone and no object
\* made by duplicate or join is left.
C1_RollbackOnFailure ==
    (Exited /\ trace.layer_created /\ trace.failed_at # "none") =>
        /\ colls = trace.pre.colls
        /\ objects = trace.pre.objects
        /\ window = frame.saved_view_layer
        /\ window = trace.pre.window
        /\ frame.new_view_layer \notin DOMAIN view_layers
        /\ DOMAIN view_layers = trace.pre.view_layers

\* The join of a later unit failed after an earlier unit was joined, with
\* hide flags that had been cleared.
C1_Witness ==
    /\ Exited
    /\ trace.failed_at \in {"duplicate", "join", "postjoin"}
    /\ frame.joined_meshes # <<>>
    /\ frame.saved_object_properties # <<>>

\* C2: after any sequence of invocations, each run to its end with any
\* outcome, the view layers, the active view layer, the objects and every
\* hide_select and hide_viewport flag are those from before the first one.
C2_NoLeakAcrossRuns ==
    pc = "idle" => Scene = trace.scene0

\* An export with joined meshes finished, after an earlier invocation had
\* written a section into the config file.
C2_Witness ==
    /\ Exited
    /\ trace.outcome = "FINISHED"
    /\ \E n \in DOMAIN texts.config.sections : "filename" \in DOMAIN texts.config.sections[n]
    /\ DOMAIN trace.exported[1].selected # {}

FullCleanup == <<"remove", "restore", "switch", "destroy">>

\* C3 as stated: on every exit of execute that created the temporary view
\* layer, the four cleanup steps ran once each, in the order remove,
\* restore, switch, destroy.
C3_AllStepsOnEveryExit ==
    (Exited /\ trace.layer_created) => trace.cleanup = FullCleanup

\* C3 as amended: on every exit of execute that created the temporary view
\* layer, switch then destroy ran once each, last; restore ran once, before
\* them, unless set_excluded_collections raised; remove ran once, before
\* restore, unless set_excluded_collections or the clearing of the hide
\* flags raised.
C3_CleanupOfEnteredBlocks ==
    (Exited /\ trace.layer_created) =>
        trace.cleanup =
            IF trace.failed_at = "propagate" THEN <<"switch", "destroy">>
            ELSE IF trace.failed_at = "clear" THEN <<"restore", "switch", "destroy">>
            ELSE FullCleanup

\* The clearing of the hide flags raised and the command has exited.
C3_Witness ==
    /\ Exited
    /\ trace.failed_at = "clear"
    /\ trace.cleanup = <<"restore", "switch", "destroy">>

\* Collection c lies under a proper descendant of the target whose section
\* of the config file resolves exportable to False.
UnderNotExportable(c) ==
    \E d \in ChildrenRecursive(frame.collection_to_export) :
        /\ InSubtree(c, d)
        /\ HasSection(texts.config, Name(d))
        /\ ~GetBoolean(texts.config, Name(d), "exportable", TRUE).val

\* C4: no object that lies under a proper descendant of the target whose
\* section resolves exportable to False is among the objects selected when
\* the exporter is called.
C4_NotExportableLeftOut ==
    \A i \in DOMAIN trace.exported :
        \A o \in DOMAIN trace.exported[i].selected :
            ~UnderNotExportable(trace.exported[i].selected[o].owner)

\* The exporter was called with objects selected while an object of the
\* target lies in a collection below one that is not exportable.
C4_Witness ==
    /\ Len(trace.exported) = 1
    /\ DOMAIN trace.exported[1].selected # {}
    /\ \E d \in ChildrenRecursive(frame.collection_to_export) :
          /\ ~GetBoolean(texts.config, Name(d), "exportable", TRUE).val
          /\ \E o \in AllObjects(d) : objects[o].owner # d

\* ------------------------------------------------------------------------
\* Properties of set_excluded_collections (SpecPropagate)

PropagationDone == pc \in {"once", "twice"}

PropTarget == frame.collection_to_export

PropNames == frame.collection_names_not_exportable

\* d, a proper descendant of the target, is under a name that is not exportable.
UnderDisallowed(d) ==
    \/ Name(d) \in PropNames
    \/ \E m \in StrictlyBetween(PropTarget, d) : Name(m) \in PropNames

\* C5: after set_excluded_collections, a proper descendant d of the export
\* target has exclude = True exactly when its own name, or the name of a
\* collection strictly between the target and d, is in the list of names
\* that are not exportable, and has exclude = False otherwise; the branch
\* that assigned it is the one inside the target.
C5_DisallowedExactly ==
    PropagationDone =>
        \A d \in ChildrenRecursive(PropTarget) :
            /\ view_layers[1].exclude[d] = UnderDisallowed(d)
            /\ view_layers[1].mark[d] =
                    IF UnderDisallowed(d) THEN "disallowed" ELSE "allowed"

\* A child whose own name is exportable is excluded because the collection
\* between it and the target is not, on a host without side effects, and the
\* flag was False before.
C5_Witness ==
    /\ pc = "once"
    /\ ~host.recursive_exclude
    /\ \E d \in ChildrenRecursive(PropTarget) :
          /\ Name(d) \notin PropNames
          /\ \E m \in StrictlyBetween(PropTarget, d) : Name(m) \in PropNames
          /\ view_layers[1].exclude[d]
          /\ ~view_layers[1].saved[d]

\* C6: with a target other than the scene collection, every collection other
\* than the scene collection that is neither the target nor below it has
\* exclude = True, assigned in the 'outside' branch, the target's proper
\* ancestors included; with the scene collection as the target, no
\* collection is assigned in the 'outside' branch.
C6_OutsideExcluded ==
    PropagationDone =>
        /\ PropTarget # Root =>
              \A c \in Nodes \ {Root} :
                  ~InSubtree(c, PropTarget) =>
                      /\ view_layers[1].exclude[c]
                      /\ view_layers[1].mark[c] = "outside"
        /\ PropTarget = Root =>
              \A c \in Nodes : view_layers[1].mark[c] # "outside"

\* A proper ancestor of the target, other than the scene collection, and a
\* collection beside the target are both excluded.
C6_Witness ==
    /\ pc = "once"
    /\ PropTarget # Root
    /\ \E a \in Nodes \ {Root} : IsAncestor(a, PropTarget) /\ view_layers[1].exclude[a]
    /\ \E b \in Nodes \ {Root} :
          /\ ~InSubtree(b, PropTarget)
          /\ ~IsAncestor(b, PropTarget)
          /\ view_layers[1].exclude[b]

\* C7: a second run of set_excluded_collections with the same arguments
\* leaves every collection with the exclude flag it had after the first run.
C7_Idempotent ==
    pc = "twice" => view_layers[1].exclude = trace.first

\* Both runs happened on a host with the recursive side effect, with a name
\* that is not exportable inside the target, and the first run changed flags.
C7_Witness ==
    /\ pc = "twice"
    /\ host.recursive_exclude
    /\ \E d \in ChildrenRecursive(PropTarget) :
          /\ Name(d) \in PropNames
          /\ ChildrenRecursive(d) # {}
    /\ \E c \in Nodes : view_layers[1].exclude[c] # view_layers[1].saved[c]

\* ------------------------------------------------------------------------
\* Properties of find_topmost_collections (SpecPlanner)

Returned == trace.returned

PlanTarget == frame.collection

PlanNames == frame.collection_names

\* C8: no collection returned by find_topmost_collections is an ancestor or
\* a descendant of another returned one (nor returned twice), every returned
\* collection is the starting collection or below it, and every returned
\* collection's name is in the list of names.
C8_Antichain ==
    pc = "returned" =>
        /\ \A i, j \in DOMAIN Returned :
              i # j => /\ Returned[i] # Returned[j]
                       /\ ~IsAncestor(Returned[i], Returned[j])
        /\ \A i \in DOMAIN Returned :
              /\ InSubtree(Returned[i], PlanTarget)
              /\ Name(Returned[i]) \in PlanNames

\* Two collections are returned and a named collection below one of them is not.
C8_Witness ==
    /\ pc = "returned"
    /\ Len(Returned) >= 2
    /\ \E c \in Nodes :
          /\ Name(c) \in PlanNames
          /\ \E i \in DOMAIN Returned : IsAncestor(Returned[i], c)

\* The returned collections that hold c.
Covering(c) == { i \in DOMAIN Returned : InSubtree(c, Returned[i]) }

\* C9 as stated: every name in the list is the name of a collection that is
\* a returned collection, or below one, for exactly one returned collection.
C9_EveryNameCovered ==
    pc = "returned" =>
        \A nm \in PlanNames :
            \E c \in Nodes : Name(c) = nm /\ Cardinality(Covering(c)) = 1

\* C9 as amended: every name in the list that is the name of a collection
\* in the subtree of the starting collection is the name of a collection
\* held by exactly one returned collection; a name of the list carried by no
\* collection of that subtree is held by no returned collection.
C9_NamesInSubtreeCovered ==
    pc = "returned" =>
        \A nm \in PlanNames :
            /\ \A c \in Nodes :
                  (Name(c) = nm /\ InSubtree(c, PlanTarget)) =>
                      Cardinality(Covering(c)) = 1
            /\ (~\E c \in Nodes : Name(c) = nm /\ InSubtree(c, PlanTarget)) =>
                  \A c \in Nodes : Name(c) = nm => Covering(c) = {}

\* A named collection lies strictly below a returned one, a second child of
\* the starting collection is returned too, and a name of the list belongs
\* to a collection outside the starting collection.
C9_Witness ==
    /\ pc = "returned"
    /\ Len(Returned) >= 2
    /\ \E c \in Nodes :
          /\ Name(c) \in PlanNames
          /\ \E i \in DOMAIN Returned : IsAncestor(Returned[i], c)
    /\ \E c \in Nodes : Name(c) \in PlanNames /\ ~InSubtree(c, PlanTarget)

\* The collections of the starting collection's subtree whose name is in the
\* list while no collection above them, from the starting collection down,
\* has its name in the list.
TopmostMatches ==
    { c \in Nodes :
        /\ InSubtree(c, PlanTarget)
        /\ Name(c) \in PlanNames
        /\ \A m \in Nodes :
              (InSubtree(m, PlanTarget) /\ IsAncestor(m, c)) => Name(m) \notin PlanNames }

\* The tree Root{B{C,D},E} of the spec's scenario: B = 1, C = 2, D = 3, E = 4.
ScenarioTree == <<0, 1, 1, 0>>

ScenarioNames == {Name(1), Name(4)}

\* C10: find_topmost_collections returns, once each, exactly the collections
\* of the starting collection's subtree whose name is in the list and that
\* have no collection with a listed name above them on the path from the
\* starting collection; for Root{B{C,D},E} and the names {B,E} it returns
\* [B,E] from Root and [B] from B; when the starting collection's own name
\* is in the list it returns that collection alone.
C10_TopmostExactly ==
    pc = "returned" =>
        /\ Range(Returned) = TopmostMatches
        /\ Len(Returned) = Cardinality(TopmostMatches)
        /\ (parent = ScenarioTree /\ PlanNames = ScenarioNames /\ PlanTarget = Root)
              => Returned = <<1, 4>>
        /\ (parent = ScenarioTree /\ PlanNames = ScenarioNames /\ PlanTarget = 1)
              => Returned = <<1>>
        /\ Name(PlanTarget) \in PlanNames => Returned = <<PlanTarget>>

\* The scenario's search from B has returned.
C10_Witness ==
    /\ pc = "returned"
    /\ parent = ScenarioTree
    /\ PlanNames = ScenarioNames
    /\ PlanTarget = 1
    /\ Returned = <<1>>

\* ------------------------------------------------------------------------
\* Properties of the selection handed to the exporter (Spec)

\* The objects the scene had before the run.
Originals == DOMAIN trace.pre.objects

\* C11: every object selected when the exporter is called, joined meshes
\* included, lies in the target collection or in a collection below it.
C11_SelectionInsideTarget ==
    \A i \in DOMAIN trace.exported :
        \A o \in DOMAIN trace.exported[i].selected :
            InSubtree(trace.exported[i].selected[o].owner, frame.collection_to_export)

\* The exporter was called for a target other than the scene collection,
\* with a joined mesh and an original among the selected objects, while the
\* scene has an object outside the target.
C11_Witness ==
    /\ Len(trace.exported) = 1
    /\ frame.collection_to_export # Root
    /\ \E o \in DOMAIN trace.exported[1].selected : o \notin Originals
    /\ \E o \in DOMAIN trace.exported[1].selected : o \in Originals
    /\ \E o \in Originals :
          ~InSubtree(trace.pre.objects[o].owner, frame.collection_to_export)

\* use_visible resolves to True for the target of the run.
UseVisible ==
    /\ HasSection(texts.config, Name(frame.collection_to_export))
    /\ GetBoolean(texts.config, Name(frame.collection_to_export), "use_visible", FALSE).val

\* Object o was visible in the user's view layer before the run: its
\* collection was not excluded there, and neither o nor a collection holding
\* it had hide_viewport set.
PreVisible(o) ==
    /\ \/ trace.pre.objects[o].owner = Root
       \/ ~view_layers[frame.saved_view_layer].exclude[trace.pre.objects[o].owner]
    /\ ~trace.pre.objects[o].hide_viewport
    /\ \A c \in Nodes \ {Root} :
          InSubtree(trace.pre.objects[o].owner, c) => ~trace.pre.colls[c].hide_viewport

\* C12: when use_visible resolves to True for the target, no object that
\* was not visible before the run is selected when the exporter is called.
C12_HiddenLeftOut ==
    UseVisible =>
        \A i \in DOMAIN trace.exported :
            \A o \in DOMAIN trace.exported[i].selected \cap Originals : PreVisible(o)

\* With use_visible True, the exporter was called with objects selected
\* while an object of the target lies in a collection that had hide_viewport
\* set before the run, and the flag is cleared at the call.
C12_Witness ==
    /\ pc = "remove"
    /\ Len(trace.exported) = 1
    /\ UseVisible
    /\ DOMAIN trace.exported[1].selected # {}
    /\ \E o \in AllObjects(frame.collection_to_export) \cap Originals :
          /\ ~PreVisible(o)
          /\ objects[o].owner # Root
          /\ trace.pre.colls[objects[o].owner].hide_viewport
          /\ ~colls[objects[o].owner].hide_viewport

\* The exporter has just been called (or has raised): the scene is as it
\* was at the call.
AtExportCall == pc = "remove" /\ Len(trace.exported) = 1

\* Object o lies in a collection joined or below one.
UnderJoined(o) ==
    \E i \in DOMAIN frame.collections_to_join :
        InSubtree(objects[o].owner, frame.collections_to_join[i])

\* The base selection: the objects of the target in the new view layer
\* that can be selected, less the hidden ones (line 437).
BaseSelection ==
    select_included_objects_in_collection(view_layers[frame.new_view_layer],
                                          frame.collection_to_export,
                                          frame.hidden_objects, FALSE)

\* C13: when the exporter is called, no original mesh under a collection
\* joined is selected, and an object under a collection joined that is no
\* mesh is selected exactly if the base selection holds it.
C13_OriginalsReplaced ==
    AtExportCall =>
        \A o \in Originals :
            UnderJoined(o) =>
                IF objects[o].type = "MESH"
                THEN o \notin DOMAIN trace.exported[1].selected
                ELSE (o \in DOMAIN trace.exported[1].selected) <=> (o \in BaseSelection)

\* The exporter was called after a join in a collection that holds, in a
\* collection below it, a mesh and an object that is no mesh, the latter
\* selected.
C13_Witness ==
    /\ AtExportCall
    /\ frame.joined_meshes # <<>>
    /\ \E o \in Originals :
          /\ UnderJoined(o)
          /\ objects[o].type = "MESH"
          /\ \A i \in DOMAIN frame.collections_to_join :
                objects[o].owner # frame.collections_to_join[i]
    /\ \E o \in Originals :
          /\ UnderJoined(o)
          /\ objects[o].type # "MESH"
          /\ o \in DOMAIN trace.exported[1].selected

\* The joined meshes selected at the export call that lie under collection c.
JoinedSelectedUnder(c) ==
    { o \in DOMAIN trace.exported[1].selected \ Originals :
        InSubtree(trace.exported[1].selected[o].owner, c) }

\* C14: when the exporter is called after the joining, for every collection
\* joined exactly one joined mesh is selected, and it bears the joined mesh
\* name resolved for that collection.
C14_OneJoinedPerUnit ==
    AtExportCall =>
        \A i \in DOMAIN frame.collections_to_join :
            LET unit == frame.collections_to_join[i]
            IN  /\ Cardinality(JoinedSelectedUnder(unit)) = 1
                /\ \A o \in JoinedSelectedUnder(unit) :
                      trace.exported[1].selected[o].name = frame.joined_mesh_names[Name(unit)]

\* ------------------------------------------------------------------------
\* Properties of the settings (SpecSettings)

TargetName == Name(frame.collection_to_export)

\* Before the run the config file was absent or empty, or had no section
\* for the target.
FirstRunCase ==
    \/ ~trace.pre_texts.present
    \/ trace.pre_texts.blank
    \/ ~HasSection(trace.pre_texts.config, TargetName)

\* C15: an invocation that finds the config file absent or empty, or
\* without a section for the target, leaves a config file with a section
\* for the target whose content is filename = <name>.<exporter>, returns
\* CANCELLED, calls no exporter and creates no view layer.
C15_FirstRunCreates ==
    (Exited /\ FirstRunCase) =>
        /\ texts.present /\ ~texts.blank
        /\ HasSection(texts.config, TargetName)
        /\ texts.config.sections[TargetName] =
              [k \in {"filename"} |->
                  DefaultFilename(TargetName,
                                  GetOption(texts.config, TargetName, "exporter", "fbx"))]
        /\ trace.outcome = "CANCELLED"
        /\ trace.exported = <<>>
        /\ ~trace.layer_created

\* The directory the config file gave the target before the run resolves to
\* a directory there is (a directory relative to the blend file resolves
\* only when the blend file is saved).
DirectoryResolves ==
    LET dir == NormalizeDir(GetOption(trace.pre_texts.config, TargetName, "directory", "//"))
    IN  /\ IsDir(dir)
        /\ RelativeToBlend(dir) => host.is_saved

\* An earlier invocation for the target took the first-run path, and the
\* section it wrote was there when this invocation began.
FirstRunBefore ==
    /\ TargetName \in trace.first_run
    /\ trace.pre_texts.present /\ ~trace.pre_texts.blank
    /\ HasSection(trace.pre_texts.config, TargetName)

\* C16: an invocation for a collection that an earlier invocation gave its
\* first run, with a directory that resolves, is no first run again (the
\* config file is left as it was) and goes on to the export stages.
C16_FirstRunOnce ==
    (Exited /\ FirstRunBefore /\ DirectoryResolves) =>
        /\ texts = trace.pre_texts
        /\ frame.exporter_name # ""

\* The reports of a failed settings resolution: the target is not
\* exportable, the exporter is unknown, the blend file is not saved, the
\* directory is missing, or an exporter parameter is of the wrong kind.
SettingsErrors ==
    { <<"ERROR", "unexportable">>, <<"ERROR", "unknown exporter">>,
      <<"ERROR", "blend file not saved">>, <<"ERROR", "no such directory">> }
    \cup { <<"ERROR", "invalid boolean", p.name>> : p \in Range(OperatorProperties) }

SettingsFailed == \E i \in DOMAIN trace.reports : trace.reports[i] \in SettingsErrors

ExportReturned(returned) ==
    /\ Exited
    /\ Len(trace.exported) = 1
    /\ trace.failed_at = "none"
    /\ frame.result = returned

\* C18: a run that gets through the selection without a failure calls the
\* exporter, with an empty selection too; when the exporter returns FINISHED
\* the command returns FINISHED, its last report is a warning that the export
\* is empty when nothing was selected and the note of success otherwise, it
\* reports no error, and the cleanup is the full one.
C18_EmptyExportSucceeds ==
    /\ (Exited /\ trace.layer_created /\ trace.failed_at = "none") =>
            Len(trace.exported) = 1
    /\ ExportReturned("FINISHED") =>
            /\ trace.outcome = "FINISHED"
            /\ trace.reports # <<>>
            /\ trace.reports[Len(trace.reports)] =
                  IF DOMAIN trace.exported[1].selected = {}
                  THEN <<"WARNING", "export is empty">>
                  ELSE <<"INFO", "exported">>
            /\ \A i \in DOMAIN trace.reports : trace.reports[i][1] # "ERROR"
            /\ trace.cleanup = FullCleanup

\* An export with nothing selected returned FINISHED, the target holding
\* objects, all of them hidden or under collections that are not exportable.
C18_Witness ==
    /\ ExportReturned("FINISHED")
    /\ DOMAIN trace.exported[1].selected = {}
    /\ AllObjects(frame.collection_to_export) # {}

\* C19: when the exporter returns an outcome other than FINISHED without
\* raising, the command runs the full cleanup, returns CANCELLED and has
\* reported a message about the failure to the caller.
C19_FailedExportReported ==
    ExportReturned("CANCELLED") =>
        /\ trace.cleanup = FullCleanup
        /\ trace.outcome = "CANCELLED"
        /\ \E i \in DOMAIN trace.reports :
              trace.reports[i] # <<"WARNING", "directory prefix">>

\* ------------------------------------------------------------------------
\* Properties of set_excluded_collections on either host (SpecPropagate)

RECURSIVE PlainReplay(_, _)
\* The view layer state after the assignments `writes`, made in order on a
\* host whose `exclude` has no side effect.
PlainReplay(lay, writes) ==
    IF writes = <<>> THEN lay
    ELSE PlainReplay(PlainAssign(lay, Head(writes)[1], Head(writes)[2]), Tail(writes))

\* C20: after set_excluded_collections, on a host whose exclude = True
\* forces every descendant to True after saving its value and whose
\* exclude = False restores every descendant's saved value, every collection
\* other than the scene collection has the exclude flag that the same
\* assignments give on a host without the side effect, from the same flags.
C20_HostIndependent ==
    pc = "once" =>
        \A c \in Nodes \ {Root} :
            view_layers[1].exclude[c] =
                PlainReplay(trace.start, view_layers[1].log).exclude[c]

\* The run was on the host with the side effect, the flags at the start
\* differed from the saved values, and a collection below one that is not
\* exportable started with exclude = False and saved = False.
C20_Witness ==
    /\ pc = "once"
    /\ host.recursive_exclude
    /\ trace.start.exclude # trace.start.saved
    /\ \E d \in ChildrenRecursive(PropTarget) :
          /\ Name(d) \in PropNames
          /\ \E e \in ChildrenRecursive(d) :
                ~trace.start.exclude[e] /\ ~trace.start.saved[e]

\* The names of the proper ancestors of the target.
AboveTargetNames == { Name(a) : a \in { n \in Nodes : IsAncestor(n, PropTarget) } }

\* The view layer state set_excluded_collections gives from the same start
\* when the names of the target's proper ancestors are taken out of the list.
WithoutNamesAbove ==
    set_excluded_collections([trace.start EXCEPT !.log = <<>>], Root,
                             PropNames \ AboveTargetNames, PropTarget, FALSE, FALSE)

\* C21: after set_excluded_collections with a target other than the scene
\* collection, the target has exclude = False, assigned in the branch for
\* the target, and every collection of the target's subtree has the flag it
\* gets when no proper ancestor of the target is in the list of names that
\* are not exportable.
C21_TargetShielded ==
    (pc = "once" /\ PropTarget # Root) =>
        /\ ~view_layers[1].exclude[PropTarget]
        /\ view_layers[1].mark[PropTarget] = "allowed"
        /\ \A d \in Nodes :
              InSubtree(d, PropTarget) =>
                  view_layers[1].exclude[d] = WithoutNamesAbove.exclude[d]

\* A proper ancestor of the target, other than the scene collection, is in
\* the list, on the host with the side effect, and the target has a child
\* that ends included after it started excluded.
C21_Witness ==
    /\ pc = "once"
    /\ host.recursive_exclude
    /\ \E a \in Nodes \ {Root} : IsAncestor(a, PropTarget) /\ Name(a) \in PropNames
    /\ \E d \in ChildrenRecursive(PropTarget) :
          trace.start.exclude[d] /\ ~view_layers[1].exclude[d]

\* ------------------------------------------------------------------------
\* Properties of the view layers during a run (Spec)

\* C22: at every point of every invocation, whatever the target, no exclude
\* flag of a view layer the user had before the command ran has been
\* assigned, and in no view layer has the exclude flag of the scene
\* collection been assigned.
C22_TemporaryLayerOnly ==
    /\ \A l \in DOMAIN view_layers \cap trace.scene0.view_layers :
          /\ view_layers[l].log = <<>>
          /\ \A c \in DOMAIN view_layers[l].mark : view_layers[l].mark[c] = "unset"
    /\ \A l \in DOMAIN view_layers :
          /\ view_layers[l].mark[Root] = "unset"
          /\ \A i \in DOMAIN view_layers[l].log : view_layers[l].log[i][1] # Root

\* set_excluded_collections has run with the scene collection as the target
\* and assigned flags in the new view layer, the user's view layer having a
\* collection excluded.
C22_Witness ==
    /\ pc = "clear"
    /\ frame.collection_to_export = Root
    /\ view_layers[frame.new_view_layer].log # <<>>
    /\ \E c \in Nodes : view_layers[frame.saved_view_layer].exclude[c]

\* ------------------------------------------------------------------------
\* Properties of the settings handed to the exporter (SpecSettings)

SkippedKeys == {"filepath", "filter_glob", "use_active_collection", "use_selection",
                "batch_mode"}

\* C23: whatever the config file holds, every call of the exporter has
\* use_selection = True, no filter_glob and no batch_mode, use_active_collection
\* absent or False, and as filepath the directory and filename settings, not
\* the value the file gives for filepath.
C23_SelectionControlFixed ==
    \A i \in DOMAIN trace.exported :
        LET given == trace.exported[i].settings
            config == trace.pre_texts.config
        IN  /\ "use_selection" \in DOMAIN given /\ given["use_selection"] = TRUE
            /\ DOMAIN given \cap {"filter_glob", "batch_mode"} = {}
            /\ "use_active_collection" \in DOMAIN given =>
                    given["use_active_collection"] = FALSE
            /\ given["filepath"] =
                    <<NormalizeDir(GetOption(config, TargetName, "directory", "//")),
                      GetOption(config, TargetName, "filename",
                                DefaultFilename(TargetName, frame.exporter_name))>>
            /\ HasOption(config, TargetName, "filepath") =>
                    given["filepath"] # GetOption(config, TargetName, "filepath", <<>>)

\* The exporter was called in a run whose config file gives the target a
\* value for each of the skipped keys.
C23_Witness ==
    /\ Len(trace.exported) = 1
    /\ \A k \in SkippedKeys : HasOption(trace.pre_texts.config, TargetName, k)
    /\ GetOption(trace.pre_texts.config, TargetName, "use_selection", "") = "False"

\* ------------------------------------------------------------------------
\* Properties of the use_selection test (SpecExporters)

\* The operator of the exporter has a property named use_selection.
HasUseSelection(exporter_name) ==
    \E i \in DOMAIN PropertiesOfOperator(exporter_name) :
        PropertiesOfOperator(exporter_name)[i].name = "use_selection"

\* get_export_settings gave settings, for an exporter of the table.
SettingsGiven == frame.exporter_name \in RegisteredExporters

C25_OutcomeFollowsExport ==
    /\ Len(trace.exported) <= 1
    /\ Exited =>
          /\ (trace.outcome = "FINISHED") <=>
                (Len(trace.exported) = 1 /\ trace.export_returned = "FINISHED")
          /\ trace.exported = <<>> => trace.outcome \in {"CANCELLED", "RAISED"}

\* The exporter returned FINISHED for a selection that is not empty and the
\* command has returned FINISHED.
C25_Witness ==
    /\ Exited
    /\ trace.outcome = "FINISHED"
    /\ Len(trace.exported) = 1
    /\ DOMAIN trace.exported[1].selected # {}

\* ------------------------------------------------------------------------
\* Properties of the meshes handed to duplicate and join (Spec)

\* Object o lies under a collection below the target that the config file
\* marks as not exportable.
BelowNotExportable(o) ==
    \E c \in Nodes \ {frame.collection_to_export} :
        /\ InSubtree(c, frame.collection_to_export)
        /\ InSubtree(trace.pre.objects[o].owner, c)
        /\ Name(c) \in frame.not_exportable

\* The meshes of unit u from before the run that are in the new view layer
\* and not recorded as hidden.
JoinableMeshes(u) ==
    { o \in DOMAIN trace.pre.objects :
        /\ InSubtree(trace.pre.objects[o].owner, u)
        /\ trace.pre.objects[o].type = "MESH"
        /\ ~BelowNotExportable(o)
        /\ o \notin frame.hidden_objects }

\* The units turned so far whose selection was not empty.
UnitsWithMeshes == { u \in DOMAIN trace.join_inputs : trace.join_inputs[u] # {} }

\* C26: the objects selected for duplicate and join in the turn of a unit are
\* exactly the meshes from before the run that lie in the unit or below it,
\* under no collection marked not exportable, and are not recorded as
\* hidden; a unit without such a mesh gets no joined mesh and makes no turn
\* fail: a failure of the join loop comes from a unit that has meshes, and
\* once the loop is through there are as many joined meshes as units with
\* meshes.
C26_JoinInputsFiltered ==
    /\ \A u \in DOMAIN trace.join_inputs : trace.join_inputs[u] = JoinableMeshes(u)
    /\ trace.failed_at \in {"duplicate", "join", "postjoin", "duplicate in joined list"} =>
            /\ JoinUnit \in DOMAIN trace.join_inputs
            /\ trace.join_inputs[JoinUnit] # {}
    /\ (pc \in {"select", "export"}) =>
            /\ DOMAIN trace.join_inputs = Range(frame.collections_to_join)
            /\ Len(frame.joined_meshes) = Cardinality(UnitsWithMeshes)

\* The loop is through with two units: one was joined, the other holds a
\* mesh that was left out and so had nothing to join.
C26_Witness ==
    /\ pc = "select"
    /\ UnitsWithMeshes # {}
    /\ \E u \in DOMAIN trace.join_inputs :
          /\ trace.join_inputs[u] = {}
          /\ \E o \in DOMAIN trace.pre.objects :
                /\ InSubtree(trace.pre.objects[o].owner, u)
                /\ trace.pre.objects[o].type = "MESH"

\* ------------------------------------------------------------------------
\* Properties of get_exporter_args_from_config (SpecArgs)

KnownKinds == {"Bool", "String", "Float", "Int", "Enum"}

\* The value of the section, or of DEFAULT, for the property's own key.
OwnValue(prop) == GetOption(frame.config, ArgSection, prop.name, "")

\* That value coerced as the kind of the property asks.
OwnCoerced(prop) ==
    IF prop.kind = "Bool" THEN OwnValue(prop) \in TrueStrings
    ELSE IF prop.kind = "Float" THEN FloatOf(OwnValue(prop))
    ELSE IF prop.kind = "Int" THEN IntOf(OwnValue(prop))
    ELSE IF prop.kind = "Enum" /\ prop.is_enum_flag THEN SplitCommas(OwnValue(prop))
    ELSE OwnValue(prop)

\* get_exporter_args_from_config has returned a map.
ArgsReturned == pc = "returned" /\ trace.got.ok

\* C27: in the map get_exporter_args_from_config returns, every key is the
\* name of a property of a kind the function coerces that has a value in the
\* section or in DEFAULT, and its entry is that value coerced; a property
\* without a value, or of another kind, has no entry.
C27_OwnKeyOnly ==
    ArgsReturned =>
        \A i \in DOMAIN frame.props :
            LET prop == frame.props[i]
            IN  IF prop.kind \in KnownKinds
                        /\ HasOption(frame.config, ArgSection, prop.name)
                THEN /\ prop.name \in DOMAIN trace.got.args
                     /\ trace.got.args[prop.name] = OwnCoerced(prop)
                ELSE prop.name \notin DOMAIN trace.got.args

====
